---- MODULE Spec2Model ----
(***************************************************************************)
(* Model of the concurrency and resource-management core of the           *)
(* cognicode-agent backend:                                               *)
(*   - CodeService  (src/server/services/code_service.py): the result     *)
(*     cache with TTL expiry and access-count eviction;                    *)
(*   - AgentPool    (src/server/app.py) and BaseAgent                      *)
(*     (src/server/agents/base_agent.py): the worker pool;                 *)
(*   - the socket event handlers (src/server/app.py).                      *)
(* Each component has its own specification over the shared variables:     *)
(*   SpecCache  cache operations of concurrent threads, with the clock;    *)
(*   SpecAlias  cache operations plus callers mutating returned results;   *)
(*   SpecPool   pool initialize / acquire / run of concurrent threads;     *)
(*   SpecRuns   three sessions acquiring and running workers;              *)
(*   SpecServer the socket event handlers of app.py over cache and pool.   *)
(***************************************************************************)
EXTENDS Integers, Sequences, FiniteSets, TLC

\* ---------------------------------------------------------------- bounds
\* Largest clock value (the clock is datetime.utcnow(), in TTL units).
MaxTime == 2
\* Cap on an entry's access count (get hits are not taken beyond it).
MaxCount == 2
\* Number of result objects process_analysis may build in one behaviour.
MaxPuts == 3
\* Longest per-capability worker list the pool is driven to.
MaxWorkers == 3

\* ------------------------------------------------------ program constants
\* CodeService._max_cache_size (1000 in the source), scaled down.
max_cache_size == 2
\* CodeService.cache_timeout (3600 s in the source), scaled down.
cache_timeout == 1

Threads == {"t1", "t2"}
\* The request threads of the server; the component specifications drive two.
Sessions == Threads \cup {"t3"}
\* Fingerprints: _generate_code_hash(code), one per distinct code text.
Keys == {"a", "b", "c"}
Free == "free"
\* No argument / no key.
NoKey == "-"

VARIABLES
    \* CodeService
    analysis_cache,      \* dict code_hash -> id of the stored result object
    cache_timestamps,    \* dict code_hash -> creation time
    cache_access_count,  \* dict code_hash -> count, in insertion order
    now,                 \* datetime.utcnow()
    heap,                \* result objects: heap[id] = [top, nested]
    cpc,                 \* per thread: position in a CodeService call
    carg,                \* per thread: code_hash of the call in progress
    cret,                \* per thread: what the last call returned
    \* history (not program state)
    recency,             \* keys in the cache, least recently accessed first
    \* AgentPool
    agents,              \* per capability: the worker list, each worker its status
    pool_lock,           \* AgentPool._lock: Free or the holding thread
    initialized,         \* AgentPool._initialized
    ppc,                 \* per thread: position in a pool or worker call
    pcap,                \* per thread: capability of the worker being handled
    pres,                \* per thread: what agent.initialize() returned so far
    phandle,             \* per thread: capability of the worker it acquired
    pret,                \* per thread: what the last pool call returned
    \* request handlers (app.py)
    active_connections,  \* AgentPool._active_connections
    hpc,                 \* per thread: position in a socket event handler
    hreq,                \* per thread: the event being handled and its payload
    out,                 \* per thread: messages emitted for that event, in order
    \* formatting and linting (pure functions of their argument)
    fin,                 \* the argument: which function it is for, and the list
    fout,                \* what each invocation so far returned
    \* lock discipline
    cache_lock,          \* CodeService._lock: Free or the holding thread
    agent_lock,          \* per capability: BaseAgent._lock of its first worker
    lpc,                 \* per thread: the operation it is in and its position
    \* performance tracking of the lint worker
    performance_stats,   \* BaseAgent._performance_stats
    tracking,            \* per thread: position in analyze, duration, values read
    \* history (not program state)
    finished             \* the runs that returned or raised: number, sum of durations

cacheVars == <<analysis_cache, cache_timestamps, cache_access_count,
               now, heap, cpc, carg, cret, recency>>

poolVars == <<agents, pool_lock, initialized, ppc, pcap, pres, phandle, pret>>

srvVars == <<active_connections, hpc, hreq, out>>

fmtVars == <<fin, fout>>

perfVars == <<performance_stats, tracking, finished>>

lockVars == <<cache_lock, agent_lock, lpc, perfVars>>

vars == <<cacheVars, poolVars, srvVars, fmtVars, lockVars>>

\* ------------------------------------------------------- python dict helpers
EmptyDict == [x \in {} |-> 0]

\* d[k] = v on a dict kept as a function
DictSet(d, k, v) == [x \in (DOMAIN d) \cup {k} |-> IF x = k THEN v ELSE d[x]]

\* d.pop(k, None)
DictPop(d, k) == [x \in (DOMAIN d) \ {k} |-> d[x]]

\* Ordered dict (insertion order matters to sorted()): a sequence of <<key, value>>.
OKeys(od) == {od[i][1] : i \in 1..Len(od)}

\* od.get(k, default)
OGet(od, k, default) ==
    IF k \in OKeys(od)
    THEN LET i == CHOOSE j \in 1..Len(od) : od[j][1] = k IN od[i][2]
    ELSE default

\* od[k] = v: an existing key keeps its position, a new key goes last.
OSet(od, k, v) ==
    IF k \in OKeys(od)
    THEN [i \in 1..Len(od) |-> IF od[i][1] = k THEN <<k, v>> ELSE od[i]]
    ELSE Append(od, <<k, v>>)

\* od.pop(k, None)
OPop(od, k) == SelectSeq(od, LAMBDA p : p[1] # k)

\* sorted(od.items(), key=lambda x: x[1]): stable, ascending by value.
RECURSIVE SortedItems(_)
SortedItems(od) ==
    IF od = << >> THEN << >>
    ELSE LET m == CHOOSE i \in 1..Len(od) :
                    /\ \A j \in 1..Len(od) : od[i][2] <= od[j][2]
                    /\ \A j \in 1..(i - 1) : od[j][2] # od[i][2]
             rest == [j \in 1..(Len(od) - 1) |-> IF j < m THEN od[j] ELSE od[j + 1]]
         IN  <<od[m]>> \o SortedItems(rest)

Max(x, y) == IF x >= y THEN x ELSE y

\* ------------------------------------------------------------- CodeService
\* The three maps as one value, so that helpers can return all of them.
Maps(ac, ts, cnt) == [ac |-> ac, ts |-> ts, cnt |-> cnt]

\* Mutant: the entry's timestamp and access count are left behind.
RemoveFromCacheValueOnly(m, k) ==
    Maps(DictPop(m.ac, k), m.ts, m.cnt)

\* _remove_from_cache(code_hash)
RemoveFromCache(m, k) ==
    Maps(DictPop(m.ac, k), DictPop(m.ts, k), OPop(m.cnt, k))

RECURSIVE RemoveAll(_, _)
RemoveAll(m, ks) ==
    IF ks = << >> THEN m ELSE RemoveAll(RemoveFromCache(m, Head(ks)[1]), Tail(ks))

\* How many entries _cleanup_lru_cache removes: max(1, len(sorted_items) // 4)
ItemsToRemove(n) == Max(1, n \div 4)

\* The items _cleanup_lru_cache removes: sorted_items[:items_to_remove]
CleanupVictims(cnt) ==
    IF cnt = << >> THEN << >>
    ELSE SubSeq(SortedItems(cnt), 1, ItemsToRemove(Len(cnt)))

\* _cleanup_lru_cache()
CleanupLruCache(m) == RemoveAll(m, CleanupVictims(m.cnt))

\* Mutant: an entry whose age equals the timeout still counts as valid.
GetValidInclusive(m, k, t) == k \in DOMAIN m.ts /\ t - m.ts[k] <= cache_timeout

\* The test of get_cached_analysis for a valid entry:
\* timestamp and utcnow() - timestamp < timedelta(seconds=cache_timeout)
GetValid(m, k, t) == k \in DOMAIN m.ts /\ t - m.ts[k] < cache_timeout

\* The test of clear_old_cache for an expired entry:
\* current_time - timestamp > timedelta(seconds=cache_timeout)
PurgeExpired(created, t) == t - created > cache_timeout

\* What a call returns: kind "none" (nothing returned yet), "absent" (None),
\* "copy" (a new top-level dict, dict.copy() of stored object id: its top-level
\* fields are the caller's own, its nested containers are those of object id),
\* "ref" (the stored object id itself).
RetNone == [kind |-> "none", id |-> 0, top |-> "-"]
RetAbsent == [kind |-> "absent", id |-> 0, top |-> "-"]
RetCopy(i, h) == [kind |-> "copy", id |-> i, top |-> h[i].top]
RetRef(i) == [kind |-> "ref", id |-> i, top |-> "-"]

\* A result as the pipeline and the formatters build it.
FreshObject == [top |-> "orig", nested |-> "orig"]

TheMaps == Maps(analysis_cache, cache_timestamps, cache_access_count)

\* The lookup of get_cached_analysis under the lock (lines 116-125): the maps
\* afterwards and the value returned.
GetLookup(m, k, t, h) ==
    IF k \in DOMAIN m.ac
    THEN IF GetValid(m, k, t)
         THEN [maps |-> Maps(m.ac, m.ts, OSet(m.cnt, k, OGet(m.cnt, k, 0) + 1)),
               ret |-> RetCopy(m.ac[k], h)]
         ELSE [maps |-> RemoveFromCache(m, k), ret |-> RetAbsent]
    ELSE [maps |-> m, ret |-> RetAbsent]

\* Mutant: space is made only once the cache is over its maximum.
CacheResultLateCleanup(m, k, obj, t) ==
    LET m1 == IF Cardinality(DOMAIN m.ac) > max_cache_size
              THEN CleanupLruCache(m) ELSE m
    IN  Maps(DictSet(m1.ac, k, obj), DictSet(m1.ts, k, t), OSet(m1.cnt, k, 1))

\* Mutant: the put records no creation time.
CacheResultNoTimestamp(m, k, obj, t) ==
    LET m1 == IF Cardinality(DOMAIN m.ac) >= max_cache_size
              THEN CleanupLruCache(m) ELSE m
    IN  Maps(DictSet(m1.ac, k, obj), m1.ts, OSet(m1.cnt, k, 1))

\* Mutant: a key that is in the cache keeps the entry it has.
CacheResultFirstWriterWins(m, k, obj, t) ==
    IF k \in DOMAIN m.ac
    THEN m
    ELSE LET m1 == IF Cardinality(DOMAIN m.ac) >= max_cache_size
                   THEN CleanupLruCache(m) ELSE m
         IN  Maps(DictSet(m1.ac, k, obj), DictSet(m1.ts, k, t), OSet(m1.cnt, k, 1))

\* The body of _cache_result under the lock (lines 172-177).
CacheResult(m, k, obj, t) ==
    LET m1 == IF Cardinality(DOMAIN m.ac) >= max_cache_size
              THEN CleanupLruCache(m) ELSE m
    IN  Maps(DictSet(m1.ac, k, obj), DictSet(m1.ts, k, t), OSet(m1.cnt, k, 1))

\* The body of clear_old_cache under the lock (lines 132-144).
RECURSIVE RemoveKeys(_, _)
RemoveKeys(m, ks) ==
    IF ks = {} THEN m
    ELSE LET k == CHOOSE x \in ks : TRUE IN RemoveKeys(RemoveFromCache(m, k), ks \ {k})

ClearOldCache(m, t) ==
    LET expired_keys == {k \in DOMAIN m.ts : PurgeExpired(m.ts[k], t)}
        m1 == RemoveKeys(m, expired_keys)
    IN  IF Cardinality(DOMAIN m1.ac) > max_cache_size THEN CleanupLruCache(m1) ELSE m1

\* History: k becomes the most recently accessed of the cached keys.
Touch(seq, k, dom) == Append(SelectSeq(seq, LAMBDA x : x # k /\ x \in dom), k)
Restrict(seq, dom) == SelectSeq(seq, LAMBDA x : x \in dom)

SetMaps(m) ==
    /\ analysis_cache' = m.ac
    /\ cache_timestamps' = m.ts
    /\ cache_access_count' = m.cnt

\* ------------------------------------------------------------ cache actions
\* Every CodeService method touches the three maps only inside `with self._lock`,
\* and reads the clock there, so each locked body is one step; process_analysis
\* is two locked bodies (its lookup, then _cache_result) with a gap between them.

\* History of a lookup: a hit makes k the most recent; a removal drops k.
LookupHistory(r, k) ==
    recency' = IF r.ret.kind = "copy"
               THEN Touch(recency, k, DOMAIN r.maps.ac)
               ELSE Restrict(recency, DOMAIN r.maps.ac)

\* get_cached_analysis(code), lines 111-127
Get(t, k) ==
    /\ UNCHANGED <<poolVars, srvVars, fmtVars, lockVars>>
    /\ cpc[t] = "idle"
    /\ OGet(cache_access_count, k, 0) < MaxCount
    /\ LET r == GetLookup(TheMaps, k, now, heap)
       IN  /\ SetMaps(r.maps)
           /\ cret' = [cret EXCEPT ![t] = r.ret]
           /\ LookupHistory(r, k)
    /\ UNCHANGED <<now, heap, cpc, carg>>

\* process_analysis(analysis, code, language), lines 30-35: the lookup; a hit
\* returns the copy, a miss goes on to format and store.
PALookup(t, k) ==
    /\ UNCHANGED <<poolVars, srvVars, fmtVars, lockVars>>
    /\ cpc[t] = "idle"
    /\ Len(heap) + Cardinality({u \in Threads : cpc[u] = "pa_miss"}) < MaxPuts
    /\ OGet(cache_access_count, k, 0) < MaxCount
    /\ LET r == GetLookup(TheMaps, k, now, heap)
       IN  /\ SetMaps(r.maps)
           /\ LookupHistory(r, k)
           /\ IF r.ret.kind = "copy"
              THEN /\ cret' = [cret EXCEPT ![t] = r.ret]
                   /\ UNCHANGED <<cpc, carg>>
              ELSE /\ cret' = [cret EXCEPT ![t] = RetNone]
                   /\ cpc' = [cpc EXCEPT ![t] = "pa_miss"]
                   /\ carg' = [carg EXCEPT ![t] = k]
    /\ UNCHANGED <<now, heap>>

\* process_analysis, lines 38-52: build processed_analysis (a new object),
\* _cache_result(code_hash, processed_analysis), return processed_analysis.
PAStore(t) ==
    /\ UNCHANGED <<poolVars, srvVars, fmtVars, lockVars>>
    /\ cpc[t] = "pa_miss"
    /\ Len(heap) < MaxPuts
    /\ LET obj == Len(heap) + 1
           m == CacheResult(TheMaps, carg[t], obj, now)
       IN  /\ heap' = Append(heap, FreshObject)
           /\ SetMaps(m)
           /\ recency' = Touch(recency, carg[t], DOMAIN m.ac)
           /\ cret' = [cret EXCEPT ![t] = RetRef(obj)]
    /\ cpc' = [cpc EXCEPT ![t] = "idle"]
    /\ carg' = [carg EXCEPT ![t] = NoKey]
    /\ UNCHANGED now

\* clear_old_cache(), lines 129-147
Purge(t) ==
    /\ UNCHANGED <<poolVars, srvVars, fmtVars, lockVars>>
    /\ cpc[t] = "idle"
    /\ LET m == ClearOldCache(TheMaps, now)
       IN  /\ SetMaps(m)
           /\ recency' = Restrict(recency, DOMAIN m.ac)
    /\ cret' = [cret EXCEPT ![t] = RetNone]
    /\ UNCHANGED <<now, heap, cpc, carg>>

\* clear_cache(), lines 149-155
Clear(t) ==
    /\ UNCHANGED <<poolVars, srvVars, fmtVars, lockVars>>
    /\ cpc[t] = "idle"
    /\ SetMaps(Maps(EmptyDict, EmptyDict, << >>))
    /\ recency' = << >>
    /\ cret' = [cret EXCEPT ![t] = RetNone]
    /\ UNCHANGED <<now, heap, cpc, carg>>

\* The clock advances.
Tick ==
    /\ UNCHANGED <<poolVars, srvVars, fmtVars, lockVars>>
    /\ now < MaxTime
    /\ now' = now + 1
    /\ UNCHANGED <<analysis_cache, cache_timestamps, cache_access_count,
                   heap, cpc, carg, cret, recency>>

\* A caller holding a returned result assigns to one of its top-level fields:
\* on a copy the field is the caller's own, on the stored object it is the cache's.
MutateTop(t) ==
    /\ UNCHANGED <<poolVars, srvVars, fmtVars, lockVars>>
    /\ cpc[t] = "idle"
    /\ cret[t].kind \in {"copy", "ref"}
    /\ IF cret[t].kind = "ref"
       THEN /\ heap[cret[t].id].top = "orig"
            /\ heap' = [heap EXCEPT ![cret[t].id].top = "mut"]
            /\ UNCHANGED cret
       ELSE /\ cret[t].top = "orig"
            /\ cret' = [cret EXCEPT ![t].top = "mut"]
            /\ UNCHANGED heap
    /\ UNCHANGED <<analysis_cache, cache_timestamps, cache_access_count,
                   now, cpc, carg, recency>>

\* A caller holding a returned result mutates one of its nested containers
\* (result['issues'], result['metrics'], ...): copy() is shallow, the container
\* is the stored object's.
MutateNested(t) ==
    /\ UNCHANGED <<poolVars, srvVars, fmtVars, lockVars>>
    /\ cpc[t] = "idle"
    /\ cret[t].kind \in {"copy", "ref"}
    /\ heap[cret[t].id].nested = "orig"
    /\ heap' = [heap EXCEPT ![cret[t].id].nested = "mut"]
    /\ UNCHANGED <<analysis_cache, cache_timestamps, cache_access_count,
                   now, cpc, carg, cret, recency>>

InitCache ==
    /\ analysis_cache = EmptyDict
    /\ cache_timestamps = EmptyDict
    /\ cache_access_count = << >>
    /\ now = 0
    /\ heap = << >>
    /\ cpc = [t \in Sessions |-> "idle"]
    /\ carg = [t \in Sessions |-> NoKey]
    /\ cret = [t \in Sessions |-> RetNone]
    /\ recency = << >>

CacheOp ==
    \/ \E t \in Threads, k \in Keys : Get(t, k)
    \/ \E t \in Threads, k \in Keys : PALookup(t, k)
    \/ \E t \in Threads : PAStore(t)
    \/ \E t \in Threads : Purge(t)
    \/ \E t \in Threads : Clear(t)

\* --------------------------------------------------------------- AgentPool
\* The capabilities, in the order initialize() walks its first workers.
CapSeq == <<"lint", "refactor", "testgen">>
Caps == {CapSeq[i] : i \in 1..Len(CapSeq)}
CapIndex(c) == CHOOSE i \in 1..Len(CapSeq) : CapSeq[i] = c

\* What _load_model() gives initialize(): LinterAgent and RefactorAgent return
\* True; TestGenAgent._load_model has no return statement, so it gives None.
LoadModel(c) == c \in {"lint", "refactor"}

\* What a run is given: input it completes on, input it raises on, and (for
\* analyze and generate_suggestions) empty input, on which it returns early.
RunInputs(c) == IF c = "testgen" THEN {"ok", "raise"} ELSE {"ok", "raise", "blank"}

PoolNoRet == [op |-> "none", val |-> "-"]
InitRet(b) == [op |-> "initialize", val |-> b]
HandleRet(c) == [op |-> "acquire", val |-> c]

\* The status of worker lists[0] of capability c.
SetStatus(c, st) == agents' = [agents EXCEPT ![c][1] = st]

\* Mutant: a failed worker initialization does not stop initialize().
AfterAgentInitIgnoringFailure(t, ok) ==
    /\ pres' = [pres EXCEPT ![t] = Append(pres[t], ok)]
    /\ IF CapIndex(pcap[t]) < Len(CapSeq)
       THEN /\ pcap' = [pcap EXCEPT ![t] = CapSeq[CapIndex(pcap[t]) + 1]]
            /\ ppc' = [ppc EXCEPT ![t] = "init_agent"]
       ELSE /\ ppc' = [ppc EXCEPT ![t] = "init_set_flag"]
            /\ UNCHANGED pcap
    /\ UNCHANGED <<pool_lock, pret>>

\* initialize(), lines 121-123 and 129-131: after agent.initialize() returned
\* ok, go on to the next first worker, or raise and return False.
AfterAgentInit(t, ok) ==
    IF ok
    THEN /\ pres' = [pres EXCEPT ![t] = Append(pres[t], ok)]
         /\ IF CapIndex(pcap[t]) < Len(CapSeq)
            THEN /\ pcap' = [pcap EXCEPT ![t] = CapSeq[CapIndex(pcap[t]) + 1]]
                 /\ ppc' = [ppc EXCEPT ![t] = "init_agent"]
            ELSE /\ ppc' = [ppc EXCEPT ![t] = "init_set_flag"]
                 /\ UNCHANGED pcap
         /\ UNCHANGED <<pool_lock, pret>>
    ELSE /\ pool_lock' = Free
         /\ ppc' = [ppc EXCEPT ![t] = "idle"]
         /\ pcap' = [pcap EXCEPT ![t] = NoKey]
         /\ pres' = [pres EXCEPT ![t] = << >>]
         /\ pret' = [pret EXCEPT ![t] = InitRet(FALSE)]

\* The bound on the worker lists: initialize() is not driven past MaxWorkers.
MayGrow == \A c \in Caps : Len(agents[c]) < MaxWorkers

\* initialize(), lines 105-106: the unlocked check of _initialized.
InitCheck(t) ==
    /\ UNCHANGED <<cacheVars, srvVars, fmtVars, lockVars>>
    /\ ppc[t] = "idle"
    /\ initialized \/ MayGrow
    /\ IF initialized
       THEN /\ pret' = [pret EXCEPT ![t] = InitRet(TRUE)]
            /\ UNCHANGED ppc
       ELSE /\ pret' = [pret EXCEPT ![t] = PoolNoRet]
            /\ ppc' = [ppc EXCEPT ![t] = "init_lock"]
    /\ phandle' = [phandle EXCEPT ![t] = NoKey]
    /\ UNCHANGED <<agents, pool_lock, initialized, pcap, pres>>

\* Mutant: no second check of _initialized once the lock is held.
InitLockNoRecheck(t) ==
    /\ UNCHANGED <<cacheVars, srvVars, fmtVars, lockVars>>
    /\ ppc[t] = "init_lock"
    /\ pool_lock = Free
    /\ MayGrow
    /\ pool_lock' = t
    /\ ppc' = [ppc EXCEPT ![t] = "init_append"]
    /\ UNCHANGED <<agents, initialized, pcap, pres, phandle, pret>>

\* initialize(), lines 108-110: take the lock and check _initialized again.
InitLock(t) ==
    /\ UNCHANGED <<cacheVars, srvVars, fmtVars, lockVars>>
    /\ ppc[t] = "init_lock"
    /\ pool_lock = Free
    /\ initialized \/ MayGrow
    /\ IF initialized
       THEN /\ pret' = [pret EXCEPT ![t] = InitRet(TRUE)]
            /\ ppc' = [ppc EXCEPT ![t] = "idle"]
            /\ UNCHANGED pool_lock
       ELSE /\ pool_lock' = t
            /\ ppc' = [ppc EXCEPT ![t] = "init_append"]
            /\ UNCHANGED pret
    /\ UNCHANGED <<agents, initialized, pcap, pres, phandle>>

\* initialize(), lines 116-118: one new worker of each type is appended.
InitAppend(t) ==
    /\ UNCHANGED <<cacheVars, srvVars, fmtVars, lockVars>>
    /\ ppc[t] = "init_append"
    /\ agents' = [c \in Caps |-> Append(agents[c], "idle")]
    /\ ppc' = [ppc EXCEPT ![t] = "init_agent"]
    /\ pcap' = [pcap EXCEPT ![t] = CapSeq[1]]
    /\ pres' = [pres EXCEPT ![t] = << >>]
    /\ UNCHANGED <<pool_lock, initialized, phandle, pret>>

\* BaseAgent.initialize() of lists[0], lines 42-48: a ready worker returns
\* True at once, any other becomes 'initializing'.
AgentInitBegin(t) ==
    /\ UNCHANGED <<cacheVars, srvVars, fmtVars, lockVars>>
    /\ ppc[t] = "init_agent"
    /\ IF agents[pcap[t]][1] = "ready"
       THEN /\ AfterAgentInit(t, TRUE)
            /\ UNCHANGED agents
       ELSE /\ SetStatus(pcap[t], "initializing")
            /\ ppc' = [ppc EXCEPT ![t] = "init_load"]
            /\ UNCHANGED <<pool_lock, pcap, pres, pret>>
    /\ UNCHANGED <<initialized, phandle>>

\* BaseAgent.initialize(), lines 51-60: load the model, set 'ready' or 'error'.
AgentInitEnd(t) ==
    /\ UNCHANGED <<cacheVars, srvVars, fmtVars, lockVars>>
    /\ ppc[t] = "init_load"
    /\ SetStatus(pcap[t], IF LoadModel(pcap[t]) THEN "ready" ELSE "error")
    /\ AfterAgentInit(t, LoadModel(pcap[t]))
    /\ UNCHANGED <<initialized, phandle>>

\* initialize(), lines 125-127: mark the pool initialized and return True.
InitSetFlag(t) ==
    /\ UNCHANGED <<cacheVars, srvVars, fmtVars, lockVars>>
    /\ ppc[t] = "init_set_flag"
    /\ initialized' = TRUE
    /\ pool_lock' = Free
    /\ ppc' = [ppc EXCEPT ![t] = "idle"]
    /\ pcap' = [pcap EXCEPT ![t] = NoKey]
    /\ pres' = [pres EXCEPT ![t] = << >>]
    /\ pret' = [pret EXCEPT ![t] = InitRet(TRUE)]
    /\ UNCHANGED <<agents, phandle>>

\* Mutant: a new worker is constructed and registered on every acquire.
GetAgentAlwaysCreates(t, c) ==
    /\ UNCHANGED <<cacheVars, srvVars, fmtVars, lockVars>>
    /\ ppc[t] = "idle"
    /\ pool_lock = Free
    /\ Len(agents[c]) < MaxWorkers
    /\ agents' = [agents EXCEPT ![c] = Append(@, IF LoadModel(c) THEN "ready" ELSE "error")]
    /\ phandle' = [phandle EXCEPT ![t] = c]
    /\ pret' = [pret EXCEPT ![t] = HandleRet(c)]
    /\ UNCHANGED <<pool_lock, initialized, ppc, pcap, pres>>

\* Mutant: an acquire that finds the first worker failed puts a new worker in
\* its place.
GetAgentReplacesFailedWorker(t, c) ==
    /\ UNCHANGED <<cacheVars, srvVars, fmtVars, lockVars>>
    /\ ppc[t] = "idle"
    /\ pool_lock = Free
    /\ agents' = IF agents[c] = << >>
                 THEN [agents EXCEPT ![c] = <<IF LoadModel(c) THEN "ready" ELSE "error">>]
                 ELSE IF agents[c][1] = "error"
                 THEN [agents EXCEPT ![c][1] = IF LoadModel(c) THEN "ready" ELSE "error"]
                 ELSE agents
    /\ phandle' = [phandle EXCEPT ![t] = c]
    /\ pret' = [pret EXCEPT ![t] = HandleRet(c)]
    /\ UNCHANGED <<pool_lock, initialized, ppc, pcap, pres>>

\* get_linter_agent / get_refactor_agent / get_testgen_agent, lines 133-158,
\* all under the pool lock: an empty list gets a new worker, initialized (its
\* result is not looked at) and appended; lists[0] is returned.
GetAgent(t, c) ==
    /\ UNCHANGED <<cacheVars, srvVars, fmtVars, lockVars>>
    /\ ppc[t] = "idle"
    /\ pool_lock = Free
    /\ agents' = IF agents[c] = << >>
                 THEN [agents EXCEPT ![c] = <<IF LoadModel(c) THEN "ready" ELSE "error">>]
                 ELSE agents
    /\ phandle' = [phandle EXCEPT ![t] = c]
    /\ pret' = [pret EXCEPT ![t] = HandleRet(c)]
    /\ UNCHANGED <<pool_lock, initialized, ppc, pcap, pres>>

\* Mutant: a run takes the pool lock and keeps it while it is in progress.
RunStartHoldingPoolLock(t, input) ==
    /\ UNCHANGED <<cacheVars, srvVars, fmtVars, lockVars>>
    /\ ppc[t] = "idle"
    /\ phandle[t] # NoKey
    /\ input \in RunInputs(phandle[t])
    /\ input # "blank"
    /\ pool_lock = Free
    /\ pool_lock' = t
    /\ SetStatus(phandle[t], "running")
    /\ ppc' = [ppc EXCEPT ![t] = "run_" \o input]
    /\ pcap' = [pcap EXCEPT ![t] = phandle[t]]
    /\ pret' = [pret EXCEPT ![t] = PoolNoRet]
    /\ UNCHANGED <<initialized, pres, phandle>>

\* analyze / generate_suggestions / generate_tests on the acquired worker: the
\* status becomes 'running'; empty input returns at once with the status left
\* as it is (linter_agent.py 53-59, refactor_agent.py 50-51).
RunStart(t, input) ==
    /\ UNCHANGED <<cacheVars, srvVars, fmtVars, lockVars>>
    /\ ppc[t] = "idle"
    /\ phandle[t] # NoKey
    /\ input \in RunInputs(phandle[t])
    /\ SetStatus(phandle[t], "running")
    /\ IF input = "blank"
       THEN /\ phandle' = [phandle EXCEPT ![t] = NoKey]
            /\ UNCHANGED <<ppc, pcap>>
       ELSE /\ ppc' = [ppc EXCEPT ![t] = "run_" \o input]
            /\ pcap' = [pcap EXCEPT ![t] = phandle[t]]
            /\ UNCHANGED phandle
    /\ pret' = [pret EXCEPT ![t] = PoolNoRet]
    /\ UNCHANGED <<pool_lock, initialized, pres>>

\* The run ends: 'ready' on return, 'error' when it raised.
RunEnd(t) ==
    /\ UNCHANGED <<cacheVars, srvVars, fmtVars, lockVars>>
    /\ ppc[t] \in {"run_ok", "run_raise"}
    /\ SetStatus(pcap[t], IF ppc[t] = "run_ok" THEN "ready" ELSE "error")
    /\ ppc' = [ppc EXCEPT ![t] = "idle"]
    /\ pcap' = [pcap EXCEPT ![t] = NoKey]
    /\ phandle' = [phandle EXCEPT ![t] = NoKey]
    /\ UNCHANGED <<pool_lock, initialized, pres, pret>>

InitPool ==
    /\ agents = [c \in Caps |-> << >>]
    /\ pool_lock = Free
    /\ initialized = FALSE
    /\ ppc = [t \in Sessions |-> "idle"]
    /\ pcap = [t \in Sessions |-> NoKey]
    /\ pres = [t \in Sessions |-> << >>]
    /\ phandle = [t \in Sessions |-> NoKey]
    /\ pret = [t \in Sessions |-> PoolNoRet]

PoolOp ==
    \/ \E t \in Threads : InitCheck(t)
    \/ \E t \in Threads : InitLock(t)
    \/ \E t \in Threads : InitAppend(t)
    \/ \E t \in Threads : AgentInitBegin(t)
    \/ \E t \in Threads : AgentInitEnd(t)
    \/ \E t \in Threads : InitSetFlag(t)
    \/ \E t \in Threads, c \in Caps : GetAgent(t, c)
    \/ \E t \in Threads, input \in {"ok", "raise", "blank"} : RunStart(t, input)
    \/ \E t \in Threads : RunEnd(t)

\* -------------------------------------------------- socket event handlers
\* AppConfig.MAX_CONTENT_LENGTH (16 MB in the source), scaled down.
MAX_CONTENT_LENGTH == 1

Events == {"connect", "analyze_code", "generate_refactoring", "generate_tests"}
CodeEvents == Events \ {"connect"}

\* The texts a payload carries as data['code'] (a missing key reads as '').
CodeTexts == {<<" ">>, <<"x">>, <<" ", "x">>, <<"x", "x">>}

\* An event and its data: a dict carrying code, or something that is no dict.
NoRequest == [event |-> "none", dict |-> FALSE, code |-> << >>]
Request(ev, d, c) == [event |-> ev, dict |-> d, code |-> c]
Requests ==
    {Request("connect", FALSE, << >>)}
        \cup {Request(ev, FALSE, << >>) : ev \in CodeEvents}
        \cup {Request(ev, TRUE, c) : ev \in CodeEvents, c \in CodeTexts}

\* What a payload may carry as data['language'].
Languages == {"javascript", "python", "Python"}

\* An analyze_code event whose data names a language.
RequestIn(c, l) == [event |-> "analyze_code", dict |-> TRUE, code |-> c, language |-> l]

\* str.lower()
Lower(l) == IF l = "Python" THEN "python" ELSE l

\* data.get('language', 'javascript').lower() (app.py line 300)
LanguageOf(r) == IF "language" \in DOMAIN r THEN Lower(r.language) ELSE "javascript"

\* The rule set analyze runs for a language (linter_agent.py lines 65-68).
RuleSetOf(l) ==
    IF l \in {"javascript", "typescript", "python", "java"} THEN l ELSE "generic"

\* The result process_analysis builds from the analysis of a run in language l
\* (code_service.py lines 37-46).
ResultObject(l) == [top |-> "orig", nested |-> "orig", language |-> l, rules |-> RuleSetOf(l)]

\* str.strip()
RECURSIVE LStrip(_)
LStrip(s) == IF s # << >> /\ Head(s) = " " THEN LStrip(Tail(s)) ELSE s
RECURSIVE RStrip(_)
RStrip(s) == IF s # << >> /\ s[Len(s)] = " " THEN RStrip(SubSeq(s, 1, Len(s) - 1)) ELSE s
Strip(s) == RStrip(LStrip(s))

\* _generate_code_hash(code): one fingerprint per text.
CodeHash(code) == IF code = <<"x">> THEN "a" ELSE IF code = << >> THEN "b" ELSE "c"

\* The worker an event's handler acquires, and the message it answers with.
CapOf(ev) ==
    CASE ev = "analyze_code" -> "lint"
      [] ev = "generate_refactoring" -> "refactor"
      [] ev = "generate_tests" -> "testgen"
SuccessOf(ev) ==
    CASE ev = "analyze_code" -> "analysis_complete"
      [] ev = "generate_refactoring" -> "refactor_suggestions"
      [] ev = "generate_tests" -> "test_cases_generated"
      [] ev = "connect" -> "connected"

\* emit(name, payload); the payload of analysis_complete is the result object
\* sent, named by its number.
Msg(name, info) == [name |-> name, info |-> info]
Emit(t, msgs) == out' = [out EXCEPT ![t] = @ \o msgs]
\* The handler goes on to its next position; the handler returns.
Goto(t, pc) == hpc' = [hpc EXCEPT ![t] = pc] /\ UNCHANGED hreq
Return(t) == hpc' = [hpc EXCEPT ![t] = "idle"] /\ hreq' = [hreq EXCEPT ![t] = NoRequest]

\* WeakSet.add(x) needs a weak reference to x; str objects cannot be weakly
\* referenced, and every session id (flask request.sid, or 'unknown') is a str.
WeakReferenceable(x) == x \notin Sessions

\* The key the analyze_code handler looks up and stores under.
KeyOf(t) == CodeHash(Strip(hreq[t].code))

\* Whether the validation of the event's handler lets the request through.
Passes(r) ==
    /\ r.dict
    /\ Strip(r.code) # << >>
    /\ r.event = "analyze_code" => Len(Strip(r.code)) <= MAX_CONTENT_LENGTH

\* analyze_code requests that may still build a result object.
Analyzing == {u \in Threads : hpc[u] # "idle" /\ hreq[u].event = "analyze_code"}

\* An event arrives and its handler is entered.
Receive(t, r) ==
    /\ UNCHANGED <<fmtVars, lockVars>>
    /\ hpc[t] = "idle"
    /\ cpc[t] = "idle"
    /\ ppc[t] = "idle"
    /\ (r.event = "analyze_code" /\ Passes(r)) =>
           Len(heap) + Cardinality(Analyzing) < MaxPuts
    /\ hreq' = [hreq EXCEPT ![t] = r]
    /\ out' = [out EXCEPT ![t] = << >>]
    /\ hpc' = [hpc EXCEPT ![t] = "entered"]
    /\ UNCHANGED <<cacheVars, poolVars, active_connections>>

\* An analyze_code event arrives whose data is a dict with code and language.
ReceiveAnalyze(t, c, l) ==
    /\ UNCHANGED <<fmtVars, lockVars>>
    /\ hpc[t] = "idle"
    /\ cpc[t] = "idle"
    /\ ppc[t] = "idle"
    /\ Passes(RequestIn(c, l)) => Len(heap) + Cardinality(Analyzing) < MaxPuts
    /\ hreq' = [hreq EXCEPT ![t] = RequestIn(c, l)]
    /\ out' = [out EXCEPT ![t] = << >>]
    /\ hpc' = [hpc EXCEPT ![t] = "entered"]
    /\ UNCHANGED <<cacheVars, poolVars, active_connections>>

\* handle_connect, lines 245-267: add_connection(session_id) raises TypeError,
\* the handler's except answers 'Connection failed'. (The lines after
\* add_connection run only if the session id could be added.)
HandleConnect(t) ==
    /\ UNCHANGED <<fmtVars, lockVars>>
    /\ hpc[t] = "entered"
    /\ hreq[t].event = "connect"
    /\ IF ~WeakReferenceable(t)
       THEN /\ Emit(t, <<Msg("error", "Connection failed")>>)
            /\ Return(t)
            /\ UNCHANGED active_connections
       ELSE /\ active_connections' = active_connections \cup {t}
            /\ IF initialized
               THEN Emit(t, <<Msg("connected", "-")>>) /\ Return(t)
               ELSE Goto(t, "connect_initialize") /\ UNCHANGED out
    /\ UNCHANGED <<cacheVars, poolVars>>

\* Mutant: a rejected request has acquired its worker before it is rejected.
ValidateAfterAcquire(t) ==
    /\ UNCHANGED <<fmtVars, lockVars>>
    /\ hpc[t] = "entered"
    /\ hreq[t].event \in CodeEvents
    /\ pool_lock = Free
    /\ LET c == CapOf(hreq[t].event)
       IN  agents' = IF agents[c] = << >>
                     THEN [agents EXCEPT ![c] = <<IF LoadModel(c) THEN "ready" ELSE "error">>]
                     ELSE agents
    /\ IF Passes(hreq[t])
       THEN /\ Goto(t, IF hreq[t].event = "analyze_code" THEN "cache_get" ELSE "acquire")
            /\ UNCHANGED out
       ELSE /\ Emit(t, <<Msg("error", "No code provided")>>)
            /\ Return(t)
    /\ UNCHANGED <<cacheVars, pool_lock, initialized, ppc, pcap, pres, phandle, pret,
                   active_connections>>

\* The validation of handle_analyze_code (lines 295-308), and of
\* handle_generate_refactoring (359-365) and handle_generate_tests (395-401),
\* where data.get on something that is no dict raises into the handler's except
\* and the size of the code is not looked at.
Validate(t) ==
    /\ UNCHANGED <<fmtVars, lockVars>>
    /\ hpc[t] = "entered"
    /\ hreq[t].event \in CodeEvents
    /\ LET r == hreq[t]
           code == Strip(r.code)
       IN  IF r.event = "analyze_code"
           THEN IF ~r.dict
                THEN Emit(t, <<Msg("error", "Invalid data format")>>) /\ Return(t)
                ELSE IF code = << >>
                THEN Emit(t, <<Msg("error", "No code provided")>>) /\ Return(t)
                ELSE IF Len(code) > MAX_CONTENT_LENGTH
                THEN Emit(t, <<Msg("error", "Code exceeds maximum size limit")>>) /\ Return(t)
                ELSE Goto(t, "cache_get") /\ UNCHANGED out
           ELSE IF ~r.dict
                THEN Emit(t, <<Msg("error", "failed")>>) /\ Return(t)
                ELSE IF code = << >>
                THEN Emit(t, <<Msg("error", "No code provided")>>) /\ Return(t)
                ELSE Goto(t, "acquire") /\ UNCHANGED out
    /\ UNCHANGED <<cacheVars, poolVars, active_connections>>

\* Mutant: the first progress message goes out before the cache is looked at.
CheckCacheAfterProgress(t) ==
    /\ UNCHANGED <<fmtVars, lockVars>>
    /\ hpc[t] = "cache_get"
    /\ OGet(cache_access_count, KeyOf(t), 0) < MaxCount
    /\ LET r == GetLookup(TheMaps, KeyOf(t), now, heap)
       IN  /\ SetMaps(r.maps)
           /\ LookupHistory(r, KeyOf(t))
           /\ IF r.ret.kind = "copy"
              THEN /\ Emit(t, <<Msg("analysis_progress", "25"),
                                Msg("analysis_complete", ToString(r.ret.id))>>)
                   /\ Return(t)
              ELSE /\ Emit(t, <<Msg("analysis_progress", "25")>>)
                   /\ Goto(t, "acquire")
    /\ UNCHANGED <<now, heap, cpc, carg, cret, poolVars, active_connections>>

\* handle_analyze_code, lines 313-320: a cache hit is sent as analysis_complete;
\* on a miss the first progress message goes out.
CheckCache(t) ==
    /\ UNCHANGED <<fmtVars, lockVars>>
    /\ hpc[t] = "cache_get"
    /\ OGet(cache_access_count, KeyOf(t), 0) < MaxCount
    /\ LET r == GetLookup(TheMaps, KeyOf(t), now, heap)
       IN  /\ SetMaps(r.maps)
           /\ LookupHistory(r, KeyOf(t))
           /\ IF r.ret.kind = "copy"
              THEN Emit(t, <<Msg("analysis_complete", ToString(r.ret.id))>>) /\ Return(t)
              ELSE /\ Emit(t, <<Msg("analysis_progress", "25")>>)
                   /\ Goto(t, "acquire")
    /\ UNCHANGED <<now, heap, cpc, carg, cret, poolVars, active_connections>>

\* agent_pool.get_*_agent() in the handlers (lines 323-325, 370, 406).
AcquireWorker(t) ==
    /\ UNCHANGED <<fmtVars, lockVars>>
    /\ hpc[t] = "acquire"
    /\ pool_lock = Free
    /\ LET c == CapOf(hreq[t].event)
       IN  /\ agents' = IF agents[c] = << >>
                        THEN [agents EXCEPT ![c] = <<IF LoadModel(c) THEN "ready" ELSE "error">>]
                        ELSE agents
           /\ phandle' = [phandle EXCEPT ![t] = c]
    /\ IF hreq[t].event = "analyze_code"
       THEN Emit(t, <<Msg("analysis_progress", "50")>>)
       ELSE UNCHANGED out
    /\ Goto(t, "run")
    /\ UNCHANGED <<cacheVars, pool_lock, initialized, ppc, pcap, pres, pret,
                   active_connections>>

\* The run starts (lines 327, 371, 407): the worker's status becomes 'running'.
\* The code is not blank here; the run completes or raises.
RunWorker(t, outcome) ==
    /\ UNCHANGED <<fmtVars, lockVars>>
    /\ hpc[t] = "run"
    /\ outcome \in {"ok", "raise"}
    /\ SetStatus(phandle[t], "running")
    /\ ppc' = [ppc EXCEPT ![t] = "run_" \o outcome]
    /\ pcap' = [pcap EXCEPT ![t] = phandle[t]]
    /\ Goto(t, "running")
    /\ UNCHANGED <<cacheVars, pool_lock, initialized, pres, phandle, pret,
                   active_connections, out>>

\* Mutant: a run that raised is logged and nothing is sent.
RunReturnsSilentOnFailure(t) ==
    /\ UNCHANGED <<fmtVars, lockVars>>
    /\ hpc[t] = "running"
    /\ SetStatus(pcap[t], IF ppc[t] = "run_ok" THEN "ready" ELSE "error")
    /\ ppc' = [ppc EXCEPT ![t] = "idle"]
    /\ pcap' = [pcap EXCEPT ![t] = NoKey]
    /\ phandle' = [phandle EXCEPT ![t] = NoKey]
    /\ IF ppc[t] = "run_raise"
       THEN UNCHANGED out /\ Return(t)
       ELSE IF hreq[t].event = "analyze_code"
       THEN /\ Emit(t, <<Msg("analysis_progress", "75")>>)
            /\ Goto(t, "process")
       ELSE Emit(t, <<Msg(SuccessOf(hreq[t].event), "-")>>) /\ Return(t)
    /\ UNCHANGED <<cacheVars, pool_lock, initialized, pres, pret,
                   active_connections>>

\* The run ends. If it raised, the handler's except sends error (lines 340-342,
\* 379-381, 415-417); else the refactor and test handlers send their result
\* (lines 374-375, 410-411) and the analyze handler goes on (line 329).
RunReturns(t) ==
    /\ UNCHANGED <<fmtVars, lockVars>>
    /\ hpc[t] = "running"
    /\ SetStatus(pcap[t], IF ppc[t] = "run_ok" THEN "ready" ELSE "error")
    /\ ppc' = [ppc EXCEPT ![t] = "idle"]
    /\ pcap' = [pcap EXCEPT ![t] = NoKey]
    /\ phandle' = [phandle EXCEPT ![t] = NoKey]
    /\ IF ppc[t] = "run_raise"
       THEN Emit(t, <<Msg("error", "failed")>>) /\ Return(t)
       ELSE IF hreq[t].event = "analyze_code"
       THEN /\ Emit(t, <<Msg("analysis_progress", "75")>>)
            /\ Goto(t, "process")
       ELSE Emit(t, <<Msg(SuccessOf(hreq[t].event), "-")>>) /\ Return(t)
    /\ UNCHANGED <<cacheVars, pool_lock, initialized, pres, pret,
                   active_connections>>

\* code_service.process_analysis (line 332), its lookup: an entry stored
\* meanwhile is returned and sent (lines 334-337).
ProcessLookup(t) ==
    /\ UNCHANGED <<fmtVars, lockVars>>
    /\ hpc[t] = "process"
    /\ OGet(cache_access_count, KeyOf(t), 0) < MaxCount
    /\ LET r == GetLookup(TheMaps, KeyOf(t), now, heap)
       IN  /\ SetMaps(r.maps)
           /\ LookupHistory(r, KeyOf(t))
           /\ IF r.ret.kind = "copy"
              THEN /\ Emit(t, <<Msg("analysis_progress", "100"),
                                Msg("analysis_complete", ToString(r.ret.id))>>)
                   /\ Return(t)
              ELSE /\ Goto(t, "store")
                   /\ UNCHANGED out
    /\ UNCHANGED <<now, heap, cpc, carg, cret, poolVars, active_connections>>

\* process_analysis stores the new result and the handler sends it
\* (lines 332-337).
ProcessStore(t) ==
    /\ UNCHANGED <<fmtVars, lockVars>>
    /\ hpc[t] = "store"
    /\ Len(heap) < MaxPuts
    /\ LET obj == Len(heap) + 1
           m == CacheResult(TheMaps, KeyOf(t), obj, now)
       IN  /\ heap' = Append(heap, ResultObject(LanguageOf(hreq[t])))
           /\ SetMaps(m)
           /\ recency' = Touch(recency, KeyOf(t), DOMAIN m.ac)
    /\ Emit(t, <<Msg("analysis_progress", "100"),
                  Msg("analysis_complete", ToString(Len(heap) + 1))>>)
    /\ Return(t)
    /\ UNCHANGED <<now, cpc, carg, cret, poolVars, active_connections>>

InitServer ==
    /\ active_connections = {}
    /\ hpc = [t \in Sessions |-> "idle"]
    /\ hreq = [t \in Sessions |-> NoRequest]
    /\ out = [t \in Sessions |-> << >>]

ServerOp ==
    \/ \E t \in Threads, r \in Requests : Receive(t, r)
    \/ \E t \in Threads : HandleConnect(t)
    \/ \E t \in Threads : Validate(t)
    \/ \E t \in Threads : CheckCache(t)
    \/ \E t \in Threads : AcquireWorker(t)
    \/ \E t \in Threads, outcome \in {"ok", "raise"} : RunWorker(t, outcome)
    \/ \E t \in Threads : RunReturns(t)
    \/ \E t \in Threads : ProcessLookup(t)
    \/ \E t \in Threads : ProcessStore(t)

\* --------------------------------------------- formatting, ranking, linting
\* The longest list formatted, the number of invocations on one argument, and
\* the longest generated line of JavaScript.
MaxLen == 3
MaxCalls == 2
MaxChars == 4

\* What the agents hand to the formatters: every record has all its keys, as
\* the records built in refactor_agent.py, testgen_agent.py and linter_agent.py
\* do. (dict.get's defaults are then never used.)
SuggestionItems ==
    [type : {"performance"}, title : {"p", "q"}, line_start : {1},
     impact_score : 1..2, confidence : 1..2]
IssueItems ==
    [severity : {"error", "warning", "info"}, message : {"m"}, line : 1..2]
TestItems ==
    [name : {"test_add", "test_fibonacci"}, type : {"unit", "edge_case", "performance"}]
FunctionItems ==
    {[name |-> f, start_line |-> l, end_line |-> l + 5, complexity |-> c] :
        f \in {"f", "g"}, l \in 1..2, c \in 1..2}

\* Lists of at most MaxLen items.
Lists(S) == UNION {[1..n -> S] : n \in 0..MaxLen}

\* Mutant: the id also counts the invocations made so far.
Md5Hex8Salted(content) == <<"md5", content, Len(fout)>>

\* hashlib.md5(content.encode('utf-8')).hexdigest()[:8]: a function of the
\* content and of nothing else. The digest is written as the text it is the
\* digest of (equal texts, equal digests; collisions aside, and the converse).
Md5Hex8(content) == <<"md5", content>>

\* _generate_suggestion_id, _generate_test_id, _generate_issue_id and
\* _generate_function_id: the f-string of the fields, then the digest.
GenerateSuggestionId(s) == Md5Hex8(s.type \o s.title \o ToString(s.line_start))
GenerateTestId(tc) == Md5Hex8(tc.name \o tc.type)
GenerateIssueId(i) == Md5Hex8(i.severity \o i.message \o ToString(i.line))
GenerateFunctionId(f) == Md5Hex8(f.name \o ToString(f.start_line))

\* Python's comparison of two sort keys that are pairs.
KeyLess(a, b) == a[1] < b[1] \/ (a[1] = b[1] /\ a[2] < b[2])

\* Mutant: the sort puts an item before the items with an equal key (what
\* sorting ascending and reversing the result would do).
RECURSIVE InsertByKeyBeforeEqual(_, _, _)
InsertByKeyBeforeEqual(order, i, keys) ==
    IF order = << >> THEN <<i>>
    ELSE IF ~KeyLess(keys[i], keys[Head(order)]) THEN <<i>> \o order
    ELSE <<Head(order)>> \o InsertByKeyBeforeEqual(Tail(order), i, keys)

\* list.sort(key=..., reverse=True) is a stable sort, greatest key first: item
\* i, later in the list than every item of order, goes behind every item whose
\* key is not less than its own.
RECURSIVE InsertByKey(_, _, _)
InsertByKey(order, i, keys) ==
    IF order = << >> THEN <<i>>
    ELSE IF KeyLess(keys[Head(order)], keys[i]) THEN <<i>> \o order
    ELSE <<Head(order)>> \o InsertByKey(Tail(order), i, keys)

\* The positions 1..n of a list in the order the sort leaves them in.
RECURSIVE SortOrder(_, _)
SortOrder(n, keys) ==
    IF n = 0 THEN << >> ELSE InsertByKey(SortOrder(n - 1, keys), n, keys)

SortReverse(items, keys) ==
    LET order == SortOrder(Len(items), keys)
    IN  [p \in 1..Len(items) |-> items[order[p]]]

\* process_refactor_suggestions, the record built for one suggestion
\* (lines 59-73).
ProcessedSuggestion(s) ==
    [type |-> s.type, title |-> s.title, lineStart |-> s.line_start,
     impactScore |-> s.impact_score, confidence |-> s.confidence,
     id |-> GenerateSuggestionId(s)]

\* process_refactor_suggestions (lines 54-82).
RankSuggestions(suggestions) ==
    LET processed == [n \in 1..Len(suggestions) |-> ProcessedSuggestion(suggestions[n])]
        keys == [n \in 1..Len(processed) |->
                    <<processed[n].impactScore, processed[n].confidence>>]
    IN  SortReverse(processed, keys)

\* _format_issues: severity_order.get(severity, 0) (line 230).
SeverityOrder(sev) ==
    CASE sev = "error" -> 3
      [] sev = "warning" -> 2
      [] sev = "info" -> 1
      [] OTHER -> 0

FormattedIssue(i) ==
    [id |-> GenerateIssueId(i), severity |-> i.severity, message |-> i.message,
     line |-> i.line]

\* Mutant: within one severity the issues are not ordered by line.
FormatIssuesBySeverityOnly(issues) ==
    LET formatted == [n \in 1..Len(issues) |-> FormattedIssue(issues[n])]
        keys == [n \in 1..Len(formatted) |-> <<SeverityOrder(formatted[n].severity), 0>>]
    IN  SortReverse(formatted, keys)

\* _format_issues (lines 211-236).
FormatIssues(issues) ==
    LET formatted == [n \in 1..Len(issues) |-> FormattedIssue(issues[n])]
        keys == [n \in 1..Len(formatted) |->
                    <<SeverityOrder(formatted[n].severity), formatted[n].line>>]
    IN  SortReverse(formatted, keys)

\* _calculate_test_priority (lines 373-391); 'fibonacci' in name.lower() holds
\* for test_fibonacci only.
TestPriority(tc) ==
    LET base == CASE tc.type = "unit" -> 8
                  [] tc.type = "integration" -> 6
                  [] tc.type = "edge_case" -> 7
                  [] tc.type = "performance" -> 5
                  [] tc.type = "negative" -> 6
                  [] OTHER -> 5
        boosted == IF tc.name = "test_fibonacci" THEN base + 1 ELSE base
    IN  IF boosted < 10 THEN boosted ELSE 10

\* process_test_cases (lines 84-109): enumerate() counts from 0; True sorts
\* above False.
ProcessTestCases(test_cases) ==
    LET processed == [n \in 1..Len(test_cases) |->
                        [id |-> <<"test", n - 1, GenerateTestId(test_cases[n])>>,
                         name |-> test_cases[n].name,
                         type |-> test_cases[n].type,
                         priority |-> TestPriority(test_cases[n])]]
        keys == [n \in 1..Len(processed) |->
                    <<processed[n].priority,
                      IF processed[n].type = "unit" THEN 1 ELSE 0>>]
    IN  SortReverse(processed, keys)

\* _format_functions (lines 255-280).
FormatFunctions(functions) ==
    LET formatted == [n \in 1..Len(functions) |->
                        [id |-> GenerateFunctionId(functions[n]),
                         name |-> functions[n].name,
                         startLine |-> functions[n].start_line,
                         complexity |-> functions[n].complexity,
                         lineCount |-> functions[n].end_line - functions[n].start_line + 1]]
        keys == [n \in 1..Len(formatted) |->
                    <<formatted[n].complexity, formatted[n].lineCount>>]
    IN  SortReverse(formatted, keys)

\* ----- the JavaScript rule set; a line of code is a sequence of characters
\* \w of the regular expressions, over the characters that occur.
WordChars ==
    {"a", "c", "e", "f", "g", "i", "l", "n", "o", "r", "s", "t", "u", "v", "x",
     "1", "_"}
IsWord(c) == c \in WordChars

\* \b before position i of s (i = Len(s) + 1: at the end).
Boundary(s, i) ==
    LET before == i > 1 /\ IsWord(s[i - 1])
        after == i <= Len(s) /\ IsWord(s[i])
    IN  before # after

\* s has the literal w at position i.
StartsAt(s, i, w) ==
    /\ i + Len(w) - 1 <= Len(s)
    /\ SubSeq(s, i, i + Len(w) - 1) = w

\* \s* from position i up to position j (exclusive).
Spaces(s, i, j) == \A n \in i..(j - 1) : s[n] = " "

\* re.search(r'\bvar\s+', line)
MatchVar(s) ==
    \E i \in 1..Len(s) :
        /\ Boundary(s, i)
        /\ StartsAt(s, i, <<"v", "a", "r">>)
        /\ i + 3 <= Len(s)
        /\ s[i + 3] = " "

\* re.search(r'\b==\b(?!=)', line)
MatchLooseEquality(s) ==
    \E i \in 1..Len(s) :
        /\ Boundary(s, i)
        /\ StartsAt(s, i, <<"=", "=">>)
        /\ Boundary(s, i + 2)
        /\ ~(i + 2 <= Len(s) /\ s[i + 2] = "=")

\* re.search(r'console\.log', line)
MatchConsoleLog(s) ==
    \E i \in 1..Len(s) :
        StartsAt(s, i, <<"c", "o", "n", "s", "o", "l", "e", ".", "l", "o", "g">>)

\* re.search(r'eval\s*\(', line)
MatchEval(s) ==
    \E i \in 1..Len(s) :
        /\ StartsAt(s, i, <<"e", "v", "a", "l">>)
        /\ \E j \in (i + 4)..Len(s) : Spaces(s, i + 4, j) /\ s[j] = "("

\* re.search(r'innerHTML\s*=', line)
MatchInnerHTML(s) ==
    \E i \in 1..Len(s) :
        /\ StartsAt(s, i, <<"i", "n", "n", "e", "r", "H", "T", "M", "L">>)
        /\ \E j \in (i + 9)..Len(s) : Spaces(s, i + 9, j) /\ s[j] = "="

\* _check_javascript_patterns (lines 125-147): the rules that match the line,
\* in the order of the pattern list, each at most once.
JsRules(s) ==
    (IF MatchVar(s) THEN <<"var">> ELSE << >>)
    \o (IF MatchLooseEquality(s) THEN <<"==">> ELSE << >>)
    \o (IF MatchConsoleLog(s) THEN <<"console.log">> ELSE << >>)
    \o (IF MatchEval(s) THEN <<"eval">> ELSE << >>)
    \o (IF MatchInnerHTML(s) THEN <<"innerHTML">> ELSE << >>)

RuleSeverity(rule) ==
    CASE rule = "console.log" -> "info"
      [] rule = "eval" -> "error"
      [] OTHER -> "warning"

\* The issues of line number n.
LineIssues(s, n) ==
    LET rules == JsRules(s)
    IN  [p \in 1..Len(rules) |->
            [severity |-> RuleSeverity(rules[p]), rule |-> rules[p], line |-> n]]

\* What the issues add to metrics['complexity'] (lines 143-146).
IssueWeight(sev) == IF sev = "error" THEN 2 ELSE IF sev = "warning" THEN 1 ELSE 0

\* len(re.findall(rf'\b{keyword}\b', line)) for text in lower case.
CountWord(s, w) ==
    Cardinality({i \in 1..Len(s) :
                    Boundary(s, i) /\ StartsAt(s, i, w) /\ Boundary(s, i + Len(w))})

ComplexityKeywords ==
    {<<"i", "f">>, <<"f", "o", "r">>, <<"w", "h", "i", "l", "e">>,
     <<"s", "w", "i", "t", "c", "h">>, <<"c", "a", "s", "e">>,
     <<"c", "a", "t", "c", "h">>, <<"r", "e", "t", "u", "r", "n">>}

RECURSIVE SumOver(_, _)
SumOver(S, f) ==
    IF S = {} THEN 0
    ELSE LET x == CHOOSE y \in S : TRUE IN f[x] + SumOver(S \ {x}, f)

RECURSIVE Flatten(_)
Flatten(seqs) == IF seqs = << >> THEN << >> ELSE Head(seqs) \o Flatten(Tail(seqs))

\* _calculate_complexity (lines 149-159) adds the keyword counts; a line break
\* is no word character, so the count over the code is the sum over its lines.
\* (No input mentions fibonacci.)
KeywordCount(lines) ==
    SumOver(ComplexityKeywords \X DOMAIN lines,
            [p \in ComplexityKeywords \X DOMAIN lines |-> CountWord(lines[p[2]], p[1])])

\* _analyze_javascript (lines 87-123), its issues and metrics, on the lines of
\* the code, each stripped. (The list of functions it also returns is left
\* out: no input declares a function.)
AnalyzeJavascript(lines) ==
    LET stripped == [n \in DOMAIN lines |-> Strip(lines[n])]
        issues == Flatten([n \in DOMAIN lines |-> LineIssues(stripped[n], n)])
        weight == SumOver(DOMAIN issues, [p \in DOMAIN issues |-> IssueWeight(issues[p].severity)])
        rest == 10 - Len(issues)
    IN  [issues |-> issues,
         complexity |-> 1 + weight + KeywordCount(lines),
         maintainability |-> IF rest > 1 THEN rest ELSE 1,
         lines_of_code |-> Len(lines)]

\* The input of the claim about the JavaScript rules, and the same statement
\* with no spaces around the operator.
SampleLine ==
    <<"v", "a", "r", " ", "x", " ", "=", " ", "1", ";", " ", "i", "f", " ",
      "(", "x", " ", "=", "=", " ", "1", ")", " ", "{", " ", "c", "o", "n",
      "s", "o", "l", "e", ".", "l", "o", "g", "(", "x", ")", ";", " ", "}">>
SampleTight ==
    <<"v", "a", "r", " ", "x", " ", "=", " ", "1", ";", " ", "i", "f", " ",
      "(", "x", "=", "=", "1", ")", " ", "{", " ", "c", "o", "n", "s", "o",
      "l", "e", ".", "l", "o", "g", "(", "x", ")", ";", " ", "}">>

\* Generated lines: an operand, '=' and the space.
JsLines == UNION {[1..n -> {"x", "=", " "}] : n \in 1..MaxChars}
JsCodes ==
    {<<l>> : l \in JsLines \cup {SampleLine, SampleTight}}
        \cup {<<SampleLine, SampleTight>>}

\* The arguments: which function, and its list.
Argument(kind, items) == [kind |-> kind, items |-> items]
NoArgument == Argument("none", << >>)
Arguments ==
    {Argument("suggestions", l) : l \in Lists(SuggestionItems)}
        \cup {Argument("issues", l) : l \in Lists(IssueItems)}
        \cup {Argument("tests", l) : l \in Lists(TestItems)}
        \cup {Argument("functions", l) : l \in Lists(FunctionItems)}
        \cup {Argument("javascript", l) : l \in JsCodes}

\* One invocation of the function on the argument.
Invoke(kind, result) ==
    /\ fin.kind = kind
    /\ Len(fout) < MaxCalls
    /\ fout' = Append(fout, result)
    /\ UNCHANGED <<fin, cacheVars, poolVars, srvVars, lockVars>>

CallRankSuggestions == Invoke("suggestions", RankSuggestions(fin.items))
CallFormatIssues == Invoke("issues", FormatIssues(fin.items))
CallProcessTestCases == Invoke("tests", ProcessTestCases(fin.items))
CallFormatFunctions == Invoke("functions", FormatFunctions(fin.items))
CallAnalyzeJavascript == Invoke("javascript", AnalyzeJavascript(fin.items))

\* No formatter is being looked at.
InitFormat ==
    /\ fin = NoArgument
    /\ fout = << >>

\* The formatters are handed any argument.
InitArguments ==
    /\ fin \in Arguments
    /\ fout = << >>

FormatOp ==
    \/ CallRankSuggestions
    \/ CallFormatIssues
    \/ CallProcessTestCases
    \/ CallFormatFunctions
    \/ CallAnalyzeJavascript

\* ------------------------------------------------- connection tracking
\* Objects other than session ids that a caller may hand to add_connection.
Objects == {"o1", "o2"}
Refs == Threads \cup Objects

\* What add_connection / remove_connection did with x: it returned or raised;
\* was tells whether x was in the set when the call was made.
TrackRet(op, x, outcome, was) == [op |-> op, val |-> <<x, outcome, was>>]
StatusRet(counts) == [op |-> "get_status", val |-> counts]

\* AgentPool.add_connection (lines 160-162): WeakSet.add, which raises
\* TypeError for what cannot be weakly referenced.
AddConnection(t, x) ==
    /\ UNCHANGED <<cacheVars, fmtVars, lockVars>>
    /\ ppc[t] = "idle"
    /\ IF WeakReferenceable(x)
       THEN /\ active_connections' = active_connections \cup {x}
            /\ pret' = [pret EXCEPT ![t] =
                           TrackRet("add_connection", x, "returned", x \in active_connections)]
       ELSE /\ UNCHANGED active_connections
            /\ pret' = [pret EXCEPT ![t] =
                           TrackRet("add_connection", x, "TypeError", x \in active_connections)]
    /\ UNCHANGED <<agents, pool_lock, initialized, ppc, pcap, pres, phandle, hpc, hreq, out>>

\* Mutant: remove_connection lets the TypeError of WeakSet.discard through.
RemoveConnectionRaising(t, x) ==
    /\ UNCHANGED <<cacheVars, fmtVars, lockVars>>
    /\ ppc[t] = "idle"
    /\ active_connections' = active_connections \ {x}
    /\ pret' = [pret EXCEPT ![t] =
                   TrackRet("remove_connection", x,
                            IF WeakReferenceable(x) THEN "returned" ELSE "TypeError",
                            x \in active_connections)]
    /\ UNCHANGED <<agents, pool_lock, initialized, ppc, pcap, pres, phandle, hpc, hreq, out>>

\* AgentPool.remove_connection (lines 164-169), as handle_disconnect calls it
\* (line 275): WeakSet.discard inside try / except: pass.
RemoveConnection(t, x) ==
    /\ UNCHANGED <<cacheVars, fmtVars, lockVars>>
    /\ ppc[t] = "idle"
    /\ active_connections' = active_connections \ {x}
    /\ pret' = [pret EXCEPT ![t] =
                   TrackRet("remove_connection", x, "returned", x \in active_connections)]
    /\ UNCHANGED <<agents, pool_lock, initialized, ppc, pcap, pres, phandle, hpc, hreq, out>>

\* AgentPool.get_status (lines 171-179).
PoolStatus ==
    [linter_agents |-> Len(agents["lint"]),
     refactor_agents |-> Len(agents["refactor"]),
     testgen_agents |-> Len(agents["testgen"]),
     active_connections |-> Cardinality(active_connections),
     initialized |-> initialized]

GetStatus(t) ==
    /\ UNCHANGED <<cacheVars, srvVars, fmtVars, lockVars>>
    /\ ppc[t] = "idle"
    /\ pret' = [pret EXCEPT ![t] = StatusRet(PoolStatus)]
    /\ UNCHANGED <<agents, pool_lock, initialized, ppc, pcap, pres, phandle>>

TrackOp ==
    \/ \E t \in Threads, x \in Refs : AddConnection(t, x)
    \/ \E t \in Threads, x \in Refs : RemoveConnection(t, x)
    \/ \E t \in Threads : GetStatus(t)
    \/ \E t \in Threads, c \in Caps : GetAgent(t, c)

\* ------------------------------------------------------- lock discipline
\* The locks: CodeService._lock, AgentPool._lock, and BaseAgent._lock of the
\* first worker of each capability. All are threading.Lock (not reentrant).
LockNames == {"cache", "pool"} \cup Caps

\* with lock: body
With(lock, body) ==
    <<[do |-> "acquire", lock |-> lock]>> \o body \o <<[do |-> "release", lock |-> lock]>>

\* The operations whose use of the locks is followed.
Op(name, cap) == [name |-> name, cap |-> cap]
CacheOpNames == {"get", "put", "purgeExpired", "clear", "stats"}
LockOps ==
    {Op(n, NoKey) : n \in CacheOpNames \cup {"process_analysis", "initialize"}}
        \cup {Op(n, c) : n \in {"acquire", "acquire_create", "run"}, c \in Caps}

\* handle_analyze_code as a caller of these operations: answered from the cache
\* ("analyze_code_hit"), or not, with the lint worker there ("analyze_code") or
\* still to be created by get_linter_agent ("analyze_code_first").
HandlerOps == {Op(n, "lint") : n \in {"analyze_code_hit", "analyze_code", "analyze_code_first"}}

\* Mutant: handle_analyze_code looks up, computes and stores under one hold of
\* the cache lock.
ProgramHandlerHoldsCacheLock(op) ==
    CASE op.name \in CacheOpNames -> With("cache", << >>)
      [] op.name = "process_analysis" -> With("cache", << >>) \o With("cache", << >>)
      [] op.name = "initialize" ->
            With("pool", With("lint", << >>) \o With("refactor", << >>)
                             \o With("testgen", << >>))
      [] op.name = "acquire" -> With("pool", << >>)
      [] op.name = "acquire_create" -> With("pool", With(op.cap, << >>))
      [] op.name = "run" -> IF op.cap = "testgen" THEN << >> ELSE With(op.cap, << >>)
      [] op.name = "analyze_code_hit" -> With("cache", << >>)
      [] op.name \in {"analyze_code", "analyze_code_first"} ->
            With("cache",
                 With("pool", IF op.name = "analyze_code_first"
                              THEN With(op.cap, << >>) ELSE << >>)
                     \o <<[do |-> "run", lock |-> op.cap]>> \o With(op.cap, << >>))
      [] OTHER -> << >>

\* Mutant: the helpers of get_cache_stats take the cache lock themselves.
ProgramStatsLocksAgain(op) ==
    CASE op.name = "stats" -> With("cache", With("cache", << >>))
      [] op.name \in CacheOpNames \ {"stats"} -> With("cache", << >>)
      [] op.name = "process_analysis" -> With("cache", << >>) \o With("cache", << >>)
      [] op.name = "initialize" ->
            With("pool", With("lint", << >>) \o With("refactor", << >>)
                             \o With("testgen", << >>))
      [] op.name = "acquire" -> With("pool", << >>)
      [] op.name = "acquire_create" -> With("pool", With(op.cap, << >>))
      [] op.name = "run" -> IF op.cap = "testgen" THEN << >> ELSE With(op.cap, << >>)
      [] OTHER -> << >>

\* The lock steps of each operation, in order.
\*   get_cached_analysis, _cache_result, clear_old_cache, clear_cache and
\*   get_cache_stats each run under the cache lock; what they call
\*   (_remove_from_cache, _cleanup_lru_cache, _estimate_cache_memory,
\*   _get_most_accessed_entries) takes no lock.
\*   process_analysis calls get_cached_analysis and later _cache_result.
\*   AgentPool.initialize holds the pool lock over agent.initialize() of the
\*   three first workers, each under the worker's own lock.
\*   get_*_agent holds the pool lock, and over agent.initialize() of a worker
\*   it creates.
\*   analyze and generate_suggestions end in _track_performance, under the
\*   worker's lock; generate_tests takes no lock.
\*   handle_analyze_code (app.py 313-337) calls get_cached_analysis and, if
\*   that gave nothing, get_linter_agent, linter_agent.analyze (the run, a step
\*   of its own, then _track_performance) and process_analysis, one after the
\*   other.
Program(op) ==
    CASE op.name \in CacheOpNames -> With("cache", << >>)
      [] op.name = "process_analysis" -> With("cache", << >>) \o With("cache", << >>)
      [] op.name = "initialize" ->
            With("pool", With("lint", << >>) \o With("refactor", << >>)
                             \o With("testgen", << >>))
      [] op.name = "acquire" -> With("pool", << >>)
      [] op.name = "acquire_create" -> With("pool", With(op.cap, << >>))
      [] op.name = "run" -> IF op.cap = "testgen" THEN << >> ELSE With(op.cap, << >>)
      [] op.name = "analyze_code_hit" -> With("cache", << >>)
      [] op.name \in {"analyze_code", "analyze_code_first"} ->
            With("cache", << >>)
                \o With("pool", IF op.name = "analyze_code_first"
                                THEN With(op.cap, << >>) ELSE << >>)
                \o <<[do |-> "run", lock |-> op.cap]>> \o With(op.cap, << >>)
                \o With("cache", << >>) \o With("cache", << >>)
      [] OTHER -> << >>

Nowhere == [op |-> Op("none", NoKey), at |-> 0]

\* The thread holding a lock, or Free.
Holder(lock) ==
    IF lock = "cache" THEN cache_lock
    ELSE IF lock = "pool" THEN pool_lock
    ELSE agent_lock[lock]

SetHolder(lock, v) ==
    /\ cache_lock' = IF lock = "cache" THEN v ELSE cache_lock
    /\ pool_lock' = IF lock = "pool" THEN v ELSE pool_lock
    /\ agent_lock' = IF lock \in Caps THEN [agent_lock EXCEPT ![lock] = v] ELSE agent_lock

\* The lock step thread t is at, if any.
AtStep(t) == lpc[t].at \in 1..Len(Program(lpc[t].op))
Step(t) == Program(lpc[t].op)[lpc[t].at]
Waits(t, lock) == AtStep(t) /\ Step(t).do = "acquire" /\ Step(t).lock = lock

\* A thread calls an operation.
Call(t, op) ==
    /\ lpc[t] = Nowhere
    /\ lpc' = [lpc EXCEPT ![t] = [op |-> op, at |-> 1]]
    /\ UNCHANGED <<cache_lock, agent_lock>>
    /\ UNCHANGED <<cacheVars, poolVars, srvVars, fmtVars, perfVars>>

\* Lock.acquire(): blocks until the lock is free, whoever holds it.
LockAcquire(t) ==
    /\ AtStep(t)
    /\ Step(t).do = "acquire"
    /\ Holder(Step(t).lock) = Free
    /\ SetHolder(Step(t).lock, t)
    /\ lpc' = [lpc EXCEPT ![t].at = @ + 1]
    /\ UNCHANGED <<cacheVars, srvVars, fmtVars, perfVars>>
    /\ UNCHANGED <<agents, initialized, ppc, pcap, pres, phandle, pret>>

\* Lock.release() at the end of the with block.
LockRelease(t) ==
    /\ AtStep(t)
    /\ Step(t).do = "release"
    /\ SetHolder(Step(t).lock, Free)
    /\ lpc' = [lpc EXCEPT ![t].at = @ + 1]
    /\ UNCHANGED <<cacheVars, srvVars, fmtVars, perfVars>>
    /\ UNCHANGED <<agents, initialized, ppc, pcap, pres, phandle, pret>>

\* The pipeline runs on the worker (linter_agent.py lines 61-72), taking no lock.
RunPipeline(t) ==
    /\ AtStep(t)
    /\ Step(t).do = "run"
    /\ lpc' = [lpc EXCEPT ![t].at = @ + 1]
    /\ UNCHANGED <<cache_lock, agent_lock>>
    /\ UNCHANGED <<cacheVars, poolVars, srvVars, fmtVars, perfVars>>

\* The operation returns.
OpReturn(t) ==
    /\ lpc[t] # Nowhere
    /\ ~AtStep(t)
    /\ lpc' = [lpc EXCEPT ![t] = Nowhere]
    /\ UNCHANGED <<cache_lock, agent_lock>>
    /\ UNCHANGED <<cacheVars, poolVars, srvVars, fmtVars, perfVars>>

InitLocks ==
    /\ cache_lock = Free
    /\ agent_lock = [c \in Caps |-> Free]
    /\ lpc = [t \in Sessions |-> Nowhere]

LockOp ==
    \/ \E t \in Threads, op \in LockOps : Call(t, op)
    \/ \E t \in Threads : LockAcquire(t)
    \/ \E t \in Threads : LockRelease(t)
    \/ \E t \in Threads : OpReturn(t)

\* ------------------------------------------------- performance tracking
\* The runs followed, and the longest duration of a run (in clock ticks).
MaxRuns == 3
MaxDuration == 2
Durations == 1..MaxDuration

NotTracking == [pc |-> "idle", outcome |-> "-", duration |-> 0, runs |-> 0, time |-> 0]

\* Runs started and not yet returned, and runs started at all.
InAnalyze == {t \in Sessions : tracking[t].pc # "idle"}
Started == finished.n + Cardinality(InAnalyze)

TrackGoto(t, pc) == tracking' = [tracking EXCEPT ![t].pc = pc]

\* LinterAgent.analyze on non-blank code, lines 46-50: start_time is read and
\* the status becomes 'running'. The run will complete or raise, after some
\* duration.
AnalyzeStart(t, outcome, d) ==
    /\ tracking[t].pc = "idle"
    /\ ppc[t] = "idle"
    /\ phandle[t] = "lint"
    /\ Started < MaxRuns
    /\ outcome \in {"ok", "raise"}
    /\ d \in Durations
    /\ SetStatus("lint", "running")
    /\ tracking' = [tracking EXCEPT ![t] =
                       [NotTracking EXCEPT !.pc = "running", !.outcome = outcome,
                                           !.duration = d]]
    /\ UNCHANGED <<cacheVars, srvVars, fmtVars>>
    /\ UNCHANGED <<pool_lock, initialized, ppc, pcap, pres, phandle, pret>>
    /\ UNCHANGED <<cache_lock, agent_lock, lpc, performance_stats, finished>>

\* analyze, lines 74-76 and 82-84: the status becomes 'ready', or 'error' in
\* the except; end_time is read and _track_performance is called.
AnalyzeEnd(t) ==
    /\ tracking[t].pc = "running"
    /\ SetStatus("lint", IF tracking[t].outcome = "ok" THEN "ready" ELSE "error")
    /\ TrackGoto(t, "track_lock")
    /\ UNCHANGED <<cacheVars, srvVars, fmtVars>>
    /\ UNCHANGED <<pool_lock, initialized, ppc, pcap, pres, phandle, pret>>
    /\ UNCHANGED <<cache_lock, agent_lock, lpc, performance_stats, finished>>

\* Mutant: _track_performance does not wait for the worker's lock.
TrackLockNoWait(t) ==
    /\ tracking[t].pc = "track_lock"
    /\ agent_lock' = [agent_lock EXCEPT !["lint"] = t]
    /\ TrackGoto(t, "track_load")
    /\ UNCHANGED <<cacheVars, poolVars, srvVars, fmtVars>>
    /\ UNCHANGED <<cache_lock, lpc, performance_stats, finished>>

\* _track_performance, line 113: with self._lock
TrackLock(t) ==
    /\ tracking[t].pc = "track_lock"
    /\ agent_lock["lint"] = Free
    /\ agent_lock' = [agent_lock EXCEPT !["lint"] = t]
    /\ TrackGoto(t, "track_load")
    /\ UNCHANGED <<cacheVars, poolVars, srvVars, fmtVars>>
    /\ UNCHANGED <<cache_lock, lpc, performance_stats, finished>>

\* lines 114-115, the reads of `+=`: total_runs and total_time are loaded.
TrackLoad(t) ==
    /\ tracking[t].pc = "track_load"
    /\ tracking' = [tracking EXCEPT ![t].pc = "track_store",
                                    ![t].runs = performance_stats.total_runs,
                                    ![t].time = performance_stats.total_time]
    /\ UNCHANGED <<cacheVars, poolVars, srvVars, fmtVars>>
    /\ UNCHANGED <<cache_lock, agent_lock, lpc, performance_stats, finished>>

\* lines 114-119, the writes: the sums are stored, avg_time (kept as the
\* fraction total_time / total_runs) and last_performance are set.
TrackStore(t) ==
    /\ tracking[t].pc = "track_store"
    /\ performance_stats' =
           [total_runs |-> tracking[t].runs + 1,
            total_time |-> tracking[t].time + tracking[t].duration,
            avg_time |-> <<tracking[t].time + tracking[t].duration, tracking[t].runs + 1>>,
            last_performance |-> tracking[t].duration]
    /\ TrackGoto(t, "track_unlock")
    /\ UNCHANGED <<cacheVars, poolVars, srvVars, fmtVars>>
    /\ UNCHANGED <<cache_lock, agent_lock, lpc, finished>>

\* The with block ends, and analyze returns its result (line 78) or re-raises
\* (line 85).
TrackUnlock(t) ==
    /\ tracking[t].pc = "track_unlock"
    /\ agent_lock' = [agent_lock EXCEPT !["lint"] = Free]
    /\ finished' = [n |-> finished.n + 1, sum |-> finished.sum + tracking[t].duration]
    /\ tracking' = [tracking EXCEPT ![t] = NotTracking]
    /\ UNCHANGED <<cacheVars, poolVars, srvVars, fmtVars>>
    /\ UNCHANGED <<cache_lock, lpc, performance_stats>>

\* A new worker: _performance_stats of BaseAgent.__init__.
InitPerformance ==
    /\ performance_stats = [total_runs |-> 0, total_time |-> 0, avg_time |-> <<0, 1>>,
                            last_performance |-> 0]
    /\ tracking = [t \in Sessions |-> NotTracking]
    /\ finished = [n |-> 0, sum |-> 0]

PerformanceOp ==
    \/ \E t \in Sessions : GetAgent(t, "lint")
    \/ \E t \in Sessions, outcome \in {"ok", "raise"}, d \in Durations :
          AnalyzeStart(t, outcome, d)
    \/ \E t \in Sessions : AnalyzeEnd(t)
    \/ \E t \in Sessions : TrackLock(t)
    \/ \E t \in Sessions : TrackLoad(t)
    \/ \E t \in Sessions : TrackStore(t)
    \/ \E t \in Sessions : TrackUnlock(t)

Init == InitCache /\ InitPool /\ InitServer /\ InitFormat /\ InitLocks /\ InitPerformance

NextCache == CacheOp \/ Tick

\* Cache operations of concurrent threads, with the clock.
SpecCache == Init /\ [][NextCache]_vars

NextAlias ==
    \/ CacheOp
    \/ \E t \in Threads : MutateTop(t)
    \/ \E t \in Threads : MutateNested(t)

\* Cache operations of concurrent threads whose callers mutate what they got.
SpecAlias == Init /\ [][NextAlias]_vars

NextPool == PoolOp

\* Pool initialize / acquire / run of concurrent threads.
SpecPool == Init /\ [][NextPool]_vars

\* Three sessions that acquire workers and run them (the handlers' use of the
\* pool: app.py 323-327, 370-371, 406-407).
NextRuns ==
    \/ \E t \in Sessions, c \in Caps : GetAgent(t, c)
    \/ \E t \in Sessions, input \in {"ok", "raise", "blank"} : RunStart(t, input)
    \/ \E t \in Sessions : RunEnd(t)

SpecRuns == Init /\ [][NextRuns]_vars

NextServer == ServerOp

SpecServer == Init /\ [][NextServer]_vars

\* analyze_code requests in any of the languages.
NextLanguages ==
    \/ \E t \in Threads, c \in CodeTexts, l \in Languages : ReceiveAnalyze(t, c, l)
    \/ \E t \in Threads : Validate(t)
    \/ \E t \in Threads : CheckCache(t)
    \/ \E t \in Threads : AcquireWorker(t)
    \/ \E t \in Threads, outcome \in {"ok", "raise"} : RunWorker(t, outcome)
    \/ \E t \in Threads : RunReturns(t)
    \/ \E t \in Threads : ProcessLookup(t)
    \/ \E t \in Threads : ProcessStore(t)

SpecLanguages == Init /\ [][NextLanguages]_vars

\* The formatters and the JavaScript rule set, each on any argument.
InitWithArguments ==
    InitCache /\ InitPool /\ InitServer /\ InitArguments /\ InitLocks /\ InitPerformance

NextFormat == FormatOp

SpecFormat == InitWithArguments /\ [][NextFormat]_vars

NextTrack == TrackOp

\* Connection tracking next to worker acquisition.
SpecTrack == Init /\ [][NextTrack]_vars

NextLocks == LockOp

\* Threads taking and releasing the locks as the operations do, scheduled
\* fairly: a thread that can release or return does, and a thread that again
\* and again finds the lock it waits for free gets it.
FairSpecLocks ==
    /\ Init
    /\ [][NextLocks]_vars
    /\ \A t \in Threads :
          /\ WF_vars(LockRelease(t))
          /\ WF_vars(OpReturn(t))
          /\ SF_vars(LockAcquire(t))

\* Threads in handle_analyze_code, next to threads calling the operations.
NextHandlers ==
    \/ \E t \in Threads, op \in HandlerOps \cup LockOps : Call(t, op)
    \/ \E t \in Threads : LockAcquire(t)
    \/ \E t \in Threads : LockRelease(t)
    \/ \E t \in Threads : RunPipeline(t)
    \/ \E t \in Threads : OpReturn(t)

SpecHandlers == Init /\ [][NextHandlers]_vars

NextPerformance == PerformanceOp

\* Sessions running the lint worker on non-blank code at the same time.
SpecPerformance == Init /\ [][NextPerformance]_vars

\* ------------------------------------------------------------ cache claims
Pos(seq, k) == CHOOSE i \in 1..Len(seq) : seq[i] = k

Age(k) == now - cache_timestamps[k]

\* C1: whenever no cache operation is in the middle of a locked body (every
\* state of SpecCache), the cache holds at most max_cache_size entries.
C1_CacheSizeBounded == Cardinality(DOMAIN analysis_cache) <= max_cache_size

\* A put has just returned into a full cache that has seen more results than fit.
C1_Witness ==
    \E t \in Threads :
        /\ cret[t] = RetRef(Len(heap))
        /\ Len(heap) > max_cache_size
        /\ Cardinality(DOMAIN analysis_cache) = max_cache_size
        /\ \E k \in DOMAIN analysis_cache : analysis_cache[k] = Len(heap)

\* C2: get(k) returns (a copy of) the cached value iff an entry for k exists and
\* now - createdAt < TTL, and returns absent otherwise; a hit leaves createdAt
\* as it was.
C2_GetHitIffFresh ==
    [][\A t \in Threads, k \in Keys :
          Get(t, k) =>
             IF k \in DOMAIN analysis_cache /\ Age(k) < cache_timeout
             THEN /\ cret'[t] = [kind |-> "copy", id |-> analysis_cache[k],
                                 top |-> heap[analysis_cache[k]].top]
                  /\ k \in DOMAIN cache_timestamps'
                  /\ cache_timestamps'[k] = cache_timestamps[k]
                  /\ analysis_cache'[k] = analysis_cache[k]
             ELSE cret'[t] = RetAbsent]_vars

\* A get has hit an entry after the clock moved on: the entry is cached, younger
\* than the TTL, counted as accessed, and a thread holds the copy.
C2_Witness ==
    \E t \in Threads, k \in DOMAIN analysis_cache :
        /\ cret[t].kind = "copy"
        /\ cret[t].id = analysis_cache[k]
        /\ OGet(cache_access_count, k, 0) >= 2
        /\ now > 0
        /\ Age(k) < cache_timeout

\* C3: a get on an entry whose age has reached the TTL misses and removes the
\* entry from all three maps; a get before that hits; and a key that is not in
\* the cache comes back only through a new put storing a new result, so no
\* later get can return the removed value.
C3_ExpiredGetRemoves ==
    [][/\ \A t \in Threads, k \in Keys :
            (Get(t, k) /\ k \in DOMAIN analysis_cache) =>
               IF Age(k) >= cache_timeout
               THEN /\ cret'[t] = RetAbsent
                    /\ k \notin DOMAIN analysis_cache'
                    /\ k \notin DOMAIN cache_timestamps'
                    /\ k \notin OKeys(cache_access_count')
               ELSE /\ cret'[t].kind = "copy"
                    /\ cret'[t].id = analysis_cache[k]
       /\ \A k \in Keys :
            (k \notin DOMAIN analysis_cache /\ k \in DOMAIN analysis_cache') =>
               /\ Len(heap') = Len(heap) + 1
               /\ analysis_cache'[k] = Len(heap')
               /\ cache_timestamps'[k] = now
               /\ \E t \in Threads : cpc[t] = "pa_miss" /\ carg[t] = k /\ cpc'[t] = "idle"
      ]_vars

\* A get has returned absent once the clock reached the TTL of a stored result,
\* and the key it was stored under has been put again with a newer result.
C3_Witness ==
    \E t \in Threads, k \in DOMAIN analysis_cache :
        /\ cret[t] = RetAbsent
        /\ now >= cache_timeout
        /\ analysis_cache[k] > 1
        /\ cache_timestamps[k] >= cache_timeout
        /\ k \notin {carg[u] : u \in Threads}

\* C4 (as claimed): the entries a put evicts are the least recently accessed
\* ones: no evicted entry was accessed more recently than an entry that is kept.
C4_EvictsLeastRecentlyUsed ==
    [][\A t \in Threads :
          PAStore(t) =>
             \A e \in (DOMAIN analysis_cache) \ (DOMAIN analysis_cache') :
                \A kept \in ((DOMAIN analysis_cache) \cap (DOMAIN analysis_cache')) \ {carg[t]} :
                   Pos(recency, e) < Pos(recency, kept)]_vars

\* C5 (as claimed): with the cache full, if entry A was hit by get and nothing
\* was accessed since, the next put of a new key does not evict A.
C5_RefreshedEntrySurvives ==
    [][\A t \in Threads :
          (/\ PAStore(t)
           /\ carg[t] \notin DOMAIN analysis_cache
           /\ Cardinality(DOMAIN analysis_cache) = max_cache_size
           /\ OGet(cache_access_count, recency[Len(recency)], 0) >= 2)
          => recency[Len(recency)] \in DOMAIN analysis_cache']_vars

\* C6 (as claimed): a caller mutating a result it was handed never changes what
\* the cache holds, and so what a later get returns.
C6_ReturnedResultsNotAliased ==
    [][\A t \in Threads :
          (MutateTop(t) \/ MutateNested(t)) =>
             \A k \in DOMAIN analysis_cache :
                heap'[analysis_cache[k]] = heap[analysis_cache[k]]]_vars

\* C7 (as claimed): after purgeExpired no entry with now - createdAt >= TTL is
\* left and every younger entry is still there.
C7_PurgeRemovesExactlyExpired ==
    [][\A t \in Threads :
          Purge(t) =>
             DOMAIN analysis_cache' =
                {k \in DOMAIN analysis_cache : Age(k) < cache_timeout}]_vars

\* ------------------------------------------------------------- pool claims
\* C8 (as claimed): in every reachable state each capability has at most one
\* worker: nothing constructs a second worker for a capability that has one.
C8_OneWorkerPerCapability == \A c \in Caps : Len(agents[c]) <= 1

\* C9: initialize() on a pool that is already initialized returns True and is a
\* no-op, at the unlocked check and at the check under the lock (the one a
\* thread reaches that lost the race to another initialize()): no worker is
\* constructed or initialized, and lists, statuses and flag stay as they are.
C9_InitializeIdempotent ==
    [][\A t \in Threads :
          (initialized /\ (InitCheck(t) \/ InitLock(t))) =>
             /\ pret'[t] = InitRet(TRUE)
             /\ ppc'[t] = "idle"
             /\ UNCHANGED <<agents, initialized, pool_lock>>]_vars

\* The pool is initialized and every thread has had True from initialize():
\* only one of them set the flag, the other found the pool initialized.
C9_Witness ==
    /\ initialized
    /\ \A t \in Threads : ppc[t] = "idle" /\ pret[t] = InitRet(TRUE)

\* C10: _initialized becomes true only in an initialize() call whose three
\* agent.initialize() calls all returned True, and an initialize() call in
\* which a worker fails to initialize returns False with the flag still false.
C10_ReadyOnlyIfAllWorkersReady ==
    [][/\ (~initialized /\ initialized') =>
             \E t \in Threads :
                /\ ppc[t] = "init_set_flag"
                /\ pres[t] = <<TRUE, TRUE, TRUE>>
                /\ pret'[t] = InitRet(TRUE)
       /\ \A t \in Threads :
             (/\ ppc[t] = "init_load"
              /\ ppc'[t] # "init_load"
              /\ agents'[pcap[t]][1] = "error") =>
                /\ pret'[t] = InitRet(FALSE)
                /\ ppc'[t] = "idle"
                /\ ~initialized'
       /\ \A t \in Threads :
             (ppc[t] # "idle" /\ ppc'[t] = "idle" /\ pret'[t] = InitRet(FALSE)) =>
                ~initialized'
      ]_vars

\* One initialize() has returned False (the testgen worker failed to
\* initialize) and a later one has returned True and set the flag.
C10_Witness ==
    /\ initialized
    /\ \E t \in Threads : pret[t] = InitRet(TRUE)
    /\ \E u \in Threads : pret[u] = InitRet(FALSE)

\* Positions of a thread inside AgentPool.initialize() once it holds the lock.
InInitialize == {"init_append", "init_agent", "init_load", "init_set_flag"}

\* Positions of a thread inside a run of a worker.
InRun == {"run_ok", "run_raise"}

\* C11 (as claimed): initialize() on a fresh pool (the only workers are the
\* three it constructed) returns True, sets _initialized and leaves the lint,
\* refactor and testgen workers 'ready'.
C11_FreshInitializeSucceeds ==
    [][\A t \in Threads :
          (/\ ppc[t] \in InInitialize
           /\ ppc'[t] = "idle"
           /\ \A c \in Caps : Len(agents[c]) = 1) =>
              /\ pret'[t] = InitRet(TRUE)
              /\ initialized'
              /\ \A c \in Caps : agents'[c][1] = "ready"]_vars

\* C12: acquire of a capability with no worker registers exactly one worker,
\* whose initialization has run (its status is no longer 'idle'); acquire of
\* a capability that has a worker leaves every list and status as it is; both
\* return the handle of lists[0] and touch nothing else of the pool.
C12_AcquireCreatesOnlyWhenEmpty ==
    [][\A t \in Threads, c \in Caps :
          GetAgent(t, c) =>
             /\ pret'[t] = HandleRet(c)
             /\ phandle'[t] = c
             /\ \A d \in Caps \ {c} : agents'[d] = agents[d]
             /\ IF agents[c] = << >>
                THEN Len(agents'[c]) = 1 /\ agents'[c][1] \in {"ready", "error"}
                ELSE agents'[c] = agents[c]
             /\ UNCHANGED <<initialized, pool_lock>>]_vars

\* The lint worker was created by an acquire (initialize() never ran: the
\* refactor list is empty) and both threads hold it: the second acquire
\* returned the worker the first one created.
C12_Witness ==
    /\ agents["refactor"] = << >>
    /\ Len(agents["lint"]) = 1
    /\ \A t \in Threads : phandle[t] = "lint" /\ pret[t] = HandleRet("lint")

\* C13 (as claimed): acquire never hands out a worker whose status is 'error'.
C13_AcquireNeverReturnsErrorWorker ==
    [][\A t \in Threads, c \in Caps :
          GetAgent(t, c) => agents'[c][1] # "error"]_vars

\* C14 (as claimed): no two threads are inside a run of the same worker.
C14_RunsMutuallyExclusive ==
    \A t, u \in Threads :
        (t # u /\ ppc[t] \in InRun /\ ppc[u] \in InRun) => pcap[t] # pcap[u]

\* C16: a run holds no pool lock, and a run in progress on one capability
\* keeps no other session from acquiring, starting or finishing a run of a
\* different capability: with the pool lock free (nobody is inside an acquire
\* or initialize), each of these steps is enabled.
C16_DifferentCapabilitiesRunInParallel ==
    /\ \A u \in Sessions : ppc[u] \in InRun => pool_lock # u
    /\ \A u, t \in Sessions, c \in Caps :
          (ppc[u] \in InRun /\ t # u /\ c # pcap[u] /\ pool_lock = Free) =>
             /\ (ppc[t] = "idle" => ENABLED GetAgent(t, c))
             /\ ((ppc[t] = "idle" /\ phandle[t] = c) => ENABLED RunStart(t, "ok"))
             /\ ((ppc[t] \in InRun /\ pcap[t] = c) => ENABLED RunEnd(t))

\* Lint, refactor and testgen runs are all in progress at once.
C16_Witness ==
    \A c \in Caps : \E t \in Sessions : ppc[t] \in InRun /\ pcap[t] = c

\* ---------------------------------------------------------- handler claims
\* The messages that end a request.
Terminals(msgs) ==
    SelectSeq(msgs, LAMBDA m : m.name \in {"error", "connected", "analysis_complete",
                                           "refactor_suggestions", "test_cases_generated"})

\* C15 (as claimed): while a run is in progress on the lint worker, the
\* worker's status is 'running'.
C15_StatusRunningWhileRunInProgress ==
    \A t \in Threads :
        (ppc[t] \in InRun /\ pcap[t] = "lint") => agents["lint"][1] = "running"

\* C17: a handler never has sent more than one terminal message, has sent none
\* while it is still at work, and when the handler of analyze_code,
\* generate_refactoring or generate_tests returns it has sent exactly one, as
\* its last message: the event's success message or error.
C17_ExactlyOneTerminalMessage ==
    [][\A t \in Threads :
          /\ Len(Terminals(out'[t])) <= 1
          /\ hpc'[t] # "idle" => Terminals(out'[t]) = << >>
          /\ (hpc[t] # "idle" /\ hpc'[t] = "idle" /\ hreq[t].event \in CodeEvents) =>
                /\ Len(Terminals(out'[t])) = 1
                /\ out'[t][Len(out'[t])].name \in {"error", SuccessOf(hreq[t].event)}]_vars

\* One analyze_code request was answered from the cache, another one ended in a
\* failing run after its progress messages.
C17_Witness ==
    \E t, u \in Threads :
        /\ hpc[t] = "idle" /\ hpc[u] = "idle"
        /\ out[t] = <<Msg("analysis_complete", "1")>>
        /\ out[u] = <<Msg("analysis_progress", "25"), Msg("analysis_progress", "50"),
                      Msg("error", "failed")>>

\* C18 (as claimed): a connect is answered with connected, and the session id
\* is in the pool's set of connections.
C18_ConnectAnsweredWithConnected ==
    [][\A t \in Threads :
          (hpc[t] = "entered" /\ hreq[t].event = "connect" /\ hpc'[t] = "idle") =>
             /\ out'[t] = <<Msg("connected", "-")>>
             /\ t \in active_connections']_vars

\* C19: when the handler of a request that fails validation (no dict, code
\* blank after strip, or for analyze_code code over the maximum) takes its step,
\* it returns with error as its only message and the step changes nothing of
\* the cache or the pool; no other request returns from validation.
C19_RejectedRequestTouchesNothing ==
    [][\A t \in Threads :
          (hpc[t] = "entered" /\ hreq[t].event \in CodeEvents /\ hpc'[t] # "entered") =>
             IF Passes(hreq[t])
             THEN hpc'[t] # "idle" /\ UNCHANGED <<cacheVars, poolVars>>
             ELSE /\ hpc'[t] = "idle"
                  /\ Len(out'[t]) = 1
                  /\ out'[t][1].name = "error"
                  /\ UNCHANGED <<cacheVars, poolVars>>]_vars

\* An oversized analyze_code request was rejected while the cache held an entry
\* and the refactor worker did not exist yet.
C19_Witness ==
    \E t \in Threads :
        /\ hpc[t] = "idle"
        /\ out[t] = <<Msg("error", "Code exceeds maximum size limit")>>
        /\ analysis_cache # EmptyDict
        /\ agents["refactor"] = << >>

\* C20 (as claimed): a request whose code is empty after strip is answered
\* with the no-code error, one whose code is longer than the maximum with the
\* size-limit error, and with nothing else.
C20_BlankAndOversizedRejected ==
    [][\A t \in Threads :
          (/\ hpc[t] # "idle"
           /\ hpc'[t] = "idle"
           /\ hreq[t].event \in CodeEvents
           /\ hreq[t].dict) =>
              /\ Strip(hreq[t].code) = << >> =>
                    out'[t] = <<Msg("error", "No code provided")>>
              /\ Len(Strip(hreq[t].code)) > MAX_CONTENT_LENGTH =>
                    out'[t] = <<Msg("error", "Code exceeds maximum size limit")>>]_vars

\* C21 (as claimed): an analyze_code request whose code is empty or blank is
\* answered with analysis_complete and never with error.
C21_BlankCodeAnsweredWithEmptyResult ==
    [][\A t \in Threads :
          (/\ hpc[t] = "entered"
           /\ hreq[t].event = "analyze_code"
           /\ hreq[t].dict
           /\ Strip(hreq[t].code) = << >>
           /\ hpc'[t] = "idle") =>
              /\ \A i \in 1..Len(out'[t]) : out'[t][i].name # "error"
              /\ Len(Terminals(out'[t])) = 1
              /\ Terminals(out'[t])[1].name = "analysis_complete"]_vars

\* C22 (as claimed): when the run of an analyze_code request raises in the
\* language's rule set, the request is not ended with error: the handler goes
\* on to process the result of the run.
C22_RuleSetFailureDoesNotAbort ==
    [][\A t \in Threads :
          (/\ hpc[t] = "running"
           /\ ppc[t] = "run_raise"
           /\ hreq[t].event = "analyze_code"
           /\ hpc'[t] # "running") =>
              /\ hpc'[t] = "process"
              /\ \A i \in 1..Len(out'[t]) : out'[t][i].name # "error"]_vars

\* ------------------------------------------------------ formatting claims
\* The sort key of a suggestion as handed in.
SuggestionKey(s) == <<s.impact_score, s.confidence>>

\* C23: every result of process_refactor_suggestions is the formatted input
\* in some rearrangement p, with impactScore descending and, within equal
\* impactScore, confidence descending; suggestions with equal (impactScore,
\* confidence) stand in their input order; and an input that already is in
\* that order (as the list sorted by RefactorAgent.generate_suggestions is)
\* comes back in its input order.
C23_RankingStableDescending ==
    fin.kind = "suggestions" =>
        \A k \in DOMAIN fout :
            LET inp == fin.items
                res == fout[k]
                n == Len(inp)
            IN  /\ Len(res) = n
                /\ \E p \in Permutations(1..n) :
                      /\ \A i \in 1..n : res[i] = ProcessedSuggestion(inp[p[i]])
                      /\ \A i, j \in 1..n :
                            (i < j /\ SuggestionKey(inp[p[i]]) = SuggestionKey(inp[p[j]]))
                                => p[i] < p[j]
                /\ \A i, j \in 1..n :
                      i < j =>
                         \/ res[i].impactScore > res[j].impactScore
                         \/ /\ res[i].impactScore = res[j].impactScore
                            /\ res[i].confidence >= res[j].confidence
                /\ (\A i, j \in 1..n :
                       i < j => ~KeyLess(SuggestionKey(inp[i]), SuggestionKey(inp[j])))
                      => \A i \in 1..n : res[i] = ProcessedSuggestion(inp[i])

\* A list was ranked twice that had two different suggestions with equal keys
\* and a suggestion standing before one with a greater key.
C23_Witness ==
    /\ fin.kind = "suggestions"
    /\ Len(fout) = MaxCalls
    /\ \E i, j \in DOMAIN fin.items :
          /\ i < j
          /\ SuggestionKey(fin.items[i]) = SuggestionKey(fin.items[j])
          /\ fin.items[i].title # fin.items[j].title
    /\ \E i, j \in DOMAIN fin.items :
          i < j /\ KeyLess(SuggestionKey(fin.items[i]), SuggestionKey(fin.items[j]))

\* C24: every result of _format_issues is the formatted input in some
\* rearrangement, ordered by severity rank descending (error 3, warning 2,
\* info 1) and, within one severity, by line descending.
C24_IssuesBySeverityThenLine ==
    fin.kind = "issues" =>
        \A k \in DOMAIN fout :
            LET inp == fin.items
                res == fout[k]
                n == Len(inp)
                rank == [s \in {"error", "warning", "info"} |->
                            IF s = "error" THEN 3 ELSE IF s = "warning" THEN 2 ELSE 1]
            IN  /\ Len(res) = n
                /\ \E p \in Permutations(1..n) :
                      \A i \in 1..n : res[i] = FormattedIssue(inp[p[i]])
                /\ \A i, j \in 1..n :
                      i < j =>
                         \/ rank[res[i].severity] > rank[res[j].severity]
                         \/ /\ res[i].severity = res[j].severity
                            /\ res[i].line >= res[j].line

\* A list was formatted in which an info issue stood before an error and a
\* warning on line 1 before a warning on line 2.
C24_Witness ==
    /\ fin.kind = "issues"
    /\ fout # << >>
    /\ Len(fin.items) = 3
    /\ \E i, j \in DOMAIN fin.items :
          i < j /\ fin.items[i].severity = "info" /\ fin.items[j].severity = "error"
    /\ \E i, j \in DOMAIN fin.items :
          /\ i < j
          /\ fin.items[i].severity = fin.items[j].severity
          /\ fin.items[i].line < fin.items[j].line

\* The ids of a result, in the order of the result.
Ids(res) == [i \in DOMAIN res |-> res[i].id]

RuleIssues(res, r) == SelectSeq(res.issues, LAMBDA i : i.rule = r)

\* A line has == between two operands, with or without spaces around it.
HasLooseEquality(s) ==
    \E i \in 1..Len(s), a \in 1..Len(s), b \in 1..Len(s) :
        /\ a < i /\ i + 1 < b
        /\ StartsAt(s, i, <<"=", "=">>)
        /\ IsWord(s[a]) /\ IsWord(s[b])
        /\ Spaces(s, a + 1, i)
        /\ Spaces(s, i + 2, b)

\* C30 (as claimed): the lint of the one line
\*   var x = 1; if (x == 1) { console.log(x); }
\* has exactly one warning of the var rule, one warning of the == rule and one
\* info of the console.log rule, and its complexity counts the if; and every
\* line with == between two operands, with or without spaces around the
\* operator, gets exactly one warning of the == rule.
C30_JavaScriptRulesFirePerLine ==
    fin.kind = "javascript" =>
        \A k \in DOMAIN fout :
            /\ fin.items = <<SampleLine>> =>
                  /\ Len(RuleIssues(fout[k], "var")) = 1
                  /\ Len(RuleIssues(fout[k], "==")) = 1
                  /\ Len(RuleIssues(fout[k], "console.log")) = 1
                  /\ \A p \in DOMAIN fout[k].issues :
                        fout[k].issues[p].severity =
                            IF fout[k].issues[p].rule = "console.log" THEN "info" ELSE "warning"
                  /\ fout[k].complexity >= 2
            /\ \A n \in DOMAIN fin.items :
                  HasLooseEquality(fin.items[n]) =>
                     Len(SelectSeq(RuleIssues(fout[k], "=="), LAMBDA i : i.line = n)) = 1

\* -------------------------------------------------------- tracking claims
\* C26 (as claimed): add_connection puts its ref into the tracked set and
\* remove_connection takes it out, so that the active_connections count of
\* get_status is the number of refs tracked and not yet untracked; and neither
\* changes the worker lists, the statuses or the initialized flag.
C26_SessionCountFollowsTracking ==
    [][\A t \in Threads, x \in Refs :
          /\ AddConnection(t, x) =>
                /\ active_connections' = active_connections \cup {x}
                /\ UNCHANGED <<agents, initialized>>
          /\ RemoveConnection(t, x) =>
                /\ active_connections' = active_connections \ {x}
                /\ UNCHANGED <<agents, initialized>>
          /\ GetStatus(t) =>
                pret'[t].val.active_connections = Cardinality(active_connections)]_vars

\* C27: remove_connection for a ref that is not tracked (never added, or
\* removed before) returns without raising and changes neither the tracked set
\* nor the worker lists, the pool lock or the initialized flag.
C27_UntrackUnknownIsNoOp ==
    [][\A t \in Threads, x \in Refs :
          (RemoveConnection(t, x) /\ x \notin active_connections) =>
             /\ pret'[t] = TrackRet("remove_connection", x, "returned", FALSE)
             /\ UNCHANGED <<active_connections, agents, pool_lock, initialized>>]_vars

\* One thread removed a tracked object, another removed it once more; a third
\* ref is still tracked and a worker exists.
C27_Witness ==
    \E t, u \in Threads :
        /\ pret[t].op = "remove_connection"
        /\ pret[t].val = <<"o1", "returned", TRUE>>
        /\ pret[u].op = "remove_connection"
        /\ pret[u].val = <<"o1", "returned", FALSE>>
        /\ active_connections = {"o2"}
        /\ agents["lint"] # << >>

\* ------------------------------------------------------------ race claims
\* The fingerprint of the code that passes the validation of analyze_code.
RacedKey == CodeHash(<<"x">>)

\* The messages of a request that tell that its worker was run.
RunsOf(msgs) == SelectSeq(msgs, LAMBDA m : m = Msg("analysis_progress", "50"))

Blocks(t, u) == \E l \in LockNames : Waits(t, l) /\ Holder(l) = u

\* C28: under fair scheduling every operation (cache get, put, purgeExpired,
\* clear, stats, process_analysis; pool initialize, acquire; a worker's run
\* with its performance tracking) that a thread has called returns; no thread
\* ever waits for a lock it holds itself; and there never is a set of threads
\* each of which waits for a lock held by a thread of the set.
C28_EveryOperationReturns ==
    /\ [](\A t \in Threads : ~Blocks(t, t))
    /\ [](\A S \in (SUBSET Threads) \ {{}} : \E t \in S : \A u \in S : ~Blocks(t, u))
    /\ \A t \in Threads : (lpc[t] # Nowhere) ~> (lpc[t] = Nowhere)

\* One thread is inside initialize, holding the pool lock and the lock of the
\* refactor worker, while another, creating a worker, waits for the pool lock.
C28_Witness ==
    \E t, u \in Threads :
        /\ lpc[t].op.name = "initialize"
        /\ pool_lock = t
        /\ agent_lock["refactor"] = t
        /\ lpc[u].op.name = "acquire_create"
        /\ Blocks(u, t)

\* ------------------------------------------------- cache claims, continued
\* C39: in every state in which no thread is inside a locked body (every state
\* of SpecCache: each locked body is one step), the values, the creation times
\* and the access counts have the same keys, each key once.
C39_MapsHaveSameKeys ==
    /\ DOMAIN analysis_cache = DOMAIN cache_timestamps
    /\ DOMAIN cache_timestamps = OKeys(cache_access_count)
    /\ Len(cache_access_count) = Cardinality(OKeys(cache_access_count))

\* All results that fit the bound were stored, time has passed, and removals
\* have left one entry, with its access count raised by a hit.
C39_Witness ==
    /\ Len(heap) = MaxPuts
    /\ now > 0
    /\ Cardinality(DOMAIN analysis_cache) = 1
    /\ \E k \in DOMAIN analysis_cache : OGet(cache_access_count, k, 0) > 1

\* C31 (as claimed): a put whose key is in the cache, or that finds room for
\* its key, removes no entry; and a put that removes entries leaves the cache
\* exactly full.
C31_PutEvictsOnlyAsNeeded ==
    [][\A t \in Threads :
          PAStore(t) =>
             LET before == DOMAIN analysis_cache
                 after == DOMAIN analysis_cache'
             IN  /\ Cardinality(before \cup {carg[t]}) <= max_cache_size =>
                       before \subseteq after
                 /\ ~(before \subseteq after) =>
                       Cardinality(after) = max_cache_size]_vars

\* The entry the analyze_code request of thread t looks up is in the cache and
\* has not expired.
CacheHit(t) ==
    /\ KeyOf(t) \in DOMAIN analysis_cache
    /\ now - cache_timestamps[KeyOf(t)] < cache_timeout

\* C34: a cache lookup of analyze_code that hits sends the cached object as
\* analysis_complete and nothing else, and the handler returns; the step
\* leaves the pool, the workers, the result objects, the cached values and
\* their creation times as they were and adds one to the access count of the
\* entry hit and to no other. A lookup that misses sends the first progress
\* message and only then is a worker acquired: a request that acquires the
\* lint worker has sent that progress message and nothing else.
C34_HitServedFromCacheAlone ==
    [][\A t \in Threads :
          /\ (CheckCache(t) /\ CacheHit(t)) =>
                /\ out'[t] = <<Msg("analysis_complete", ToString(analysis_cache[KeyOf(t)]))>>
                /\ hpc'[t] = "idle"
                /\ UNCHANGED <<poolVars, heap, analysis_cache, cache_timestamps>>
                /\ OKeys(cache_access_count') = OKeys(cache_access_count)
                /\ \A k \in Keys :
                      OGet(cache_access_count', k, 0) =
                          OGet(cache_access_count, k, 0) + IF k = KeyOf(t) THEN 1 ELSE 0
          /\ (CheckCache(t) /\ ~CacheHit(t)) =>
                /\ out'[t] = <<Msg("analysis_progress", "25")>>
                /\ hpc'[t] = "acquire"
                /\ UNCHANGED <<poolVars, heap>>
          /\ (AcquireWorker(t) /\ hreq[t].event = "analyze_code") =>
                out[t] = <<Msg("analysis_progress", "25")>>]_vars

\* A request was answered from the cache with the one result built so far:
\* the entry has been read once more, no second result was built, and the
\* lint worker is not in a run.
C34_Witness ==
    \E t \in Threads :
        /\ hpc[t] = "idle"
        /\ out[t] = <<Msg("analysis_complete", "1")>>
        /\ Len(heap) = 1
        /\ OGet(cache_access_count, RacedKey, 0) = 2
        /\ \A u \in Threads : ppc[u] = "idle"

\* C35 (as claimed): in a processed list of test cases, the ids of two test
\* cases with the same name and type are equal wherever the two stood in the
\* list handed in: the id is a function of the test case alone.
C35_TestIdFromTestCaseAlone ==
    fin.kind = "tests" =>
        \A a \in DOMAIN fout :
            \A i, j \in DOMAIN fout[a] :
                (fout[a][i].name = fout[a][j].name /\ fout[a][i].type = fout[a][j].type) =>
                    fout[a][i].id = fout[a][j].id

\* ------------------------------------------------- worker claims, continued
\* C37 (as claimed): when a run returns without raising (on input it
\* completes on, or early on empty input) and no other thread is in a run on
\* that worker, the worker's status is 'ready'.
C37_ReadyAfterEveryReturn ==
    [][\A t \in Sessions :
          \A c \in Caps :
             (/\ \/ RunEnd(t) /\ ppc[t] = "run_ok" /\ pcap[t] = c
                 \/ RunStart(t, "blank") /\ phandle[t] = c
              /\ \A u \in Sessions \ {t} : ~(ppc[u] \in InRun /\ pcap[u] = c)) =>
                agents'[c][1] = "ready"]_vars

\* C38: no step takes a worker out of a list or puts another in its place: a
\* list that changes its length has grown at its end, the workers it had
\* staying where they were; and an acquire that finds a worker in the list
\* constructs none, leaves every list and every worker as it is and returns
\* lists[0], whatever initialize calls, runs and acquires came before.
C38_WorkersNeverReplaced ==
    [][/\ \A c \in Caps :
            /\ Len(agents'[c]) >= Len(agents[c])
            /\ Len(agents'[c]) > Len(agents[c]) =>
                  SubSeq(agents'[c], 1, Len(agents[c])) = agents[c]
       /\ \A t \in Threads :
            \A c \in Caps :
               (GetAgent(t, c) /\ agents[c] # << >>) =>
                   /\ UNCHANGED agents
                   /\ pret'[t] = HandleRet(c)
                   /\ phandle'[t] = c]_vars

\* The lint worker was acquired after the list had grown by initialize calls
\* and a run on its first worker had failed.
C38_Witness ==
    \E t \in Threads :
        /\ Len(agents["lint"]) > 1
        /\ agents["lint"][1] = "error"
        /\ ppc[t] = "idle"
        /\ phandle[t] = "lint"
        /\ pret[t] = HandleRet("lint")

\* ------------------------------------------------- lock claims, continued
\* Thread t is in handle_analyze_code.
InHandler(t) == lpc[t].op \in HandlerOps

\* C33: a thread that holds the cache lock is inside the locked body of a cache
\* operation, which it leaves by releasing the lock: it is not waiting for the
\* pool lock or a worker's lock (acquiring a worker), holds neither, and is
\* not in a pipeline run.
C33_CacheLockNeverHeldOverWorker ==
    \A t \in Threads :
        cache_lock = t =>
            /\ AtStep(t)
            /\ Step(t) = [do |-> "release", lock |-> "cache"]
            /\ pool_lock # t
            /\ \A c \in Caps : agent_lock[c] # t

\* One request is in its pipeline run while another request holds the cache
\* lock, in its lookup or in its store.
C33_Witness ==
    \E t, u \in Threads :
        /\ InHandler(t) /\ InHandler(u)
        /\ AtStep(t)
        /\ Step(t).do = "run"
        /\ cache_lock = u

\* C32: the counters of the lint worker count every run once: at all times
\* total_runs is the number of runs that have stored their update, which is
\* the runs that returned or raised and those about to leave the locked body,
\* and total_time is the sum of their durations. So once all runs started have
\* returned or raised, total_runs is their number and total_time the sum of
\* their durations.
C32_NoLostUpdate ==
    LET leaving == {t \in Sessions : tracking[t].pc = "track_unlock"}
        Sum3(f) == f["t1"] + f["t2"] + f["t3"]
        pending == [t \in Sessions |-> IF t \in leaving THEN tracking[t].duration ELSE 0]
    IN  /\ performance_stats.total_runs = finished.n + Cardinality(leaving)
        /\ performance_stats.total_time = finished.sum + Sum3(pending)
        /\ InAnalyze = {} =>
              /\ performance_stats.total_runs = finished.n
              /\ performance_stats.total_time = finished.sum
              /\ performance_stats.avg_time[1] = finished.sum

\* All runs followed have returned or raised, the last one having raised, and
\* not all were of the shortest duration: the counters show them all.
C32_Witness ==
    /\ InAnalyze = {}
    /\ finished.n = MaxRuns
    /\ finished.sum > MaxRuns
    /\ performance_stats.total_runs = MaxRuns
    /\ agents["lint"][1] = "error"

\* C36 (as claimed): the result sent as analysis_complete for a request has the
\* language the request asked for and was made by that language's rule set,
\* whether it was built for this request or came from the cache.
C36_ResultInRequestedLanguage ==
    [][\A t \in Threads :
          (hpc[t] \in {"cache_get", "process", "store"} /\ hpc'[t] = "idle") =>
             \A i \in 1..Len(heap') :
                out'[t][Len(out'[t])] = Msg("analysis_complete", ToString(i)) =>
                   /\ heap'[i].language = LanguageOf(hreq[t])
                   /\ heap'[i].rules = RuleSetOf(LanguageOf(hreq[t]))]_vars

====
